---- MODULE Spec2Model ----
(***************************************************************************)
(* Model of the beaker-core crawler: doCrawl / doCheckpoint /              *)
(* getMatchingChangesInOrder (crawler/util) and the posts dataset crawler  *)
(* (crawler/posts), for one (crawl_posts, crawlSource) pair.               *)
(***************************************************************************)
EXTENDS Integers, Sequences, FiniteSets, TLC

\* ------------------------------------------------------------------ bounds
MaxVersion == 2
MaxEpoch == 2
\* longest change list handed to getMatchingChangesInOrder on its own
MaxChanges == 3
\* most rows crawl_posts holds
MaxRows == 2
\* the two callers of crawler.crawlSite: the crawl scheduler and the posts
\* write API (create / edit / delete)
Scheduler == "scheduler"
WriteApi == "writeApi"
Procs == {Scheduler, WriteApi}
NoHolder == "none"

\* ------------------------------------------------------------- constants
TABLE_VERSION == 1
TABLE_NAME == "crawl_posts"
\* archive.url of the crawled archive, as (protocol, hostname)
SourceUrl == [protocol |-> "dat:", hostname |-> "source"]
\* crawl_sources.url of the crawled archive
CrawlSourceUrl == SourceUrl
\* the schemes for which the url module's URL has a tuple origin
SpecialSchemes == {"http:", "https:", "ftp:", "ws:", "wss:"}
\* the serialization of an opaque origin
NullOrigin == [protocol |-> "", hostname |-> "null"]
JSON_TYPE == "unwalled.garden/post"

FeedA == "/data/feed/a.json"
FeedB == "/data/feed/b.json"
Other == "/index.json"
Names == {FeedA, FeedB, Other}

\* JSON_PATH_REGEX = /^\/data\/feed\/([^/]+)\.json$/i, as the set of the names
\* used here that it matches
JSON_PATH_REGEX == {FeedA, FeedB}

\* regex.test(name)
RegexTest(regex, name) == name \in regex

\* file contents: a post document (type, content.body) or something else
GoodP == [type |-> JSON_TYPE, body |-> "p"]
Junk == [type |-> "junk", body |-> "p"]
NoFile == [type |-> "none", body |-> ""]

NoRow == [crawlDatasetVersion |-> -1, crawlSourceVersion |-> -1]
NoPost == [pathname |-> "", body |-> ""]

\* JavaScript values, as (typeof, value)
JsString(s) == [t |-> "string", v |-> s]
JsNumber(n) == [t |-> "number", v |-> n]
Undefined == [t |-> "undefined", v |-> ""]

JsBoolean(b) == [t |-> "boolean", v |-> b]

\* !x is false: x is none of undefined, '', 0, false
Truthy(x) ==
  /\ x.t # "undefined"
  /\ x.t = "string" => x.v # ""
  /\ x.t = "number" => x.v # "0"
  /\ x.t = "boolean" => x.v # "false"

\* the authors argument: undefined, an array, or a string
NoArray == [t |-> "undefined", v |-> "", elems |-> <<>>]
Arr(elems) == [t |-> "array", v |-> "", elems |-> elems]
NotArray(v) == [t |-> "string", v |-> v, elems |-> <<>>]

\* !authors is false
TruthyArg(authors) == authors.t = "array" \/ (authors.t = "string" /\ authors.v # "")

\* no posts.list call yet
NoList ==
  [called |-> FALSE, offset |-> Undefined, limit |-> Undefined,
   reverse |-> Undefined, author |-> Undefined, authors |-> NoArray,
   threw |-> FALSE, queried |-> FALSE, rows |-> <<>>]

\* no posts write API call yet
NoApi == [op |-> "none", pathname |-> Undefined, content |-> [body |-> Undefined],
          threw |-> FALSE]

VARIABLES
  archive,        \* the archive's history: Seq of [name, type, version, file]
  meta,           \* crawl_sources_meta rows of the pair, in insertion order
  posts,          \* crawl_posts rows of the source, in insertion order
  tableVersion,   \* the TABLE_VERSION of the running build
  lockHolder,     \* holder of the per-archive crawl lock, NoHolder when free
  pc,             \* position of each crawlSite invocation
  resetRequired,  \* doCrawl: var resetRequired
  state,          \* doCrawl: state.crawlSourceVersion
  found,          \* doCrawl: db.get returned a row
  version,        \* doCrawl: var version
  changes,        \* doCrawl: var changes
  changedPosts,   \* handler: var changedPosts
  idx,            \* handler: position of the for-of loop (1-based)
  progress,       \* handler: var progress
  post,           \* handler: let post (parsed file)
  existingPost,   \* handler: let existingPost
  ckVersion,      \* doCheckpoint: crawlSourceVersion argument
  ckRet,          \* doCheckpoint: where the call returns to
  skipped,        \* versions of entries logged 'Failed to parse post file, skipping'
  abortedAt,      \* version of the entry logged 'Failed to read post file, aborting'
  emitted,        \* crawlerEvents emitted by the doCrawl call, in order
  postEvents,     \* events the posts module emitted during the call, in order
  \* a call of getMatchingChangesInOrder(changes, regex) on its own
  fnChanges,      \* the argument `changes`
  fnRegex,        \* the argument `regex`
  fnList,         \* the returned list
  fnReturned,     \* whether the call has returned
  \* the posts write API (create / edit / delete)
  api,            \* the last call: its arguments and whether it threw
  \* crawler/search
  tables,         \* the crawl_* tables the search reads, each in rowid order
  search,         \* the listSearchResults call of each caller
  \* crawler/posts list
  lst,            \* the last posts.list call: its arguments and its outcome
  \* crawler/util generateTimeFilename
  clock,                      \* Date.now(), in milliseconds
  lastGeneratedTimeFilename,  \* var _lastGeneratedTimeFilename: {} is undefined
  filenames,                  \* the filenames returned so far, in call order
  \* dat/library
  archives,             \* var archives: the keys of the in-memory cache
  archiveLoadPromises,  \* var archiveLoadPromises: key -> load, 0 when absent
  loads,                \* the loadArchiveInner runs: key, position, starter, and
                        \* the start time of those loadSavedArchives started
  lastCall,             \* the last loadArchive call: its key and the load it returned
  unloading,            \* keys whose unloadArchive awaits daemon.unloadArchive
  unloaded,             \* key -> unloadArchive resolved and no load was asked for since
  saved,                \* loadSavedArchives: position, index in the list, timer start
  now,                  \* the time, in wait-period units
  \* dbs/bookmarks
  bookmarks,      \* the bookmarks table of the profile: rows url, title, pinOrder
  bookmarksLock,  \* holder of the 'bookmarksdb' lock, 0 when free
  bm,             \* the running mutation of each caller
  \* dat/watchlist
  watchlist,      \* the watchlist table: rows url, resolved
  watches,        \* the watch(site) calls: the site record they hold, position
  resolvedEvents, \* url -> number of 'resolved' events emitted for the site
  loadedSites     \* urls whose datLibrary.loadArchive has resolved

vars == <<archive, meta, posts, tableVersion, lockHolder, pc, resetRequired,
          state, found, version, changes, changedPosts, idx, progress, post,
          existingPost, ckVersion, ckRet, skipped, abortedAt, emitted,
          postEvents, fnChanges, fnRegex, fnList, fnReturned, api, tables, search, lst,
          clock, lastGeneratedTimeFilename, filenames,
          archives, archiveLoadPromises, loads, lastCall, unloading, unloaded,
          saved, now, bookmarks, bookmarksLock, bm,
          watchlist, watches, resolvedEvents, loadedSites>>

\* the variables of generateTimeFilename
filenameVars == <<clock, lastGeneratedTimeFilename, filenames>>

\* the variables of dat/library
libraryVars == <<archives, archiveLoadPromises, loads, lastCall, unloading,
                 unloaded, saved, now>>

\* the variables of dbs/bookmarks
bookmarkVars == <<bookmarks, bookmarksLock, bm>>

\* the variables of dat/watchlist
watchVars == <<watchlist, watches, resolvedEvents, loadedSites>>

\* the variables of the modules beside the crawler
more == <<filenameVars, libraryVars, bookmarkVars, watchVars>>

\* the variables of the crawler and of its exported functions
notMore == <<archive, meta, posts, tableVersion, lockHolder, pc, resetRequired,
             state, found, version, changes, changedPosts, idx, progress, post,
             existingPost, ckVersion, ckRet, skipped, abortedAt, emitted,
             postEvents, fnChanges, fnRegex, fnList, fnReturned, api, tables,
             search, lst>>

notFilename == <<notMore, libraryVars, bookmarkVars, watchVars>>

notLibrary == <<notMore, filenameVars, bookmarkVars, watchVars>>

notBookmarks == <<notMore, filenameVars, libraryVars, watchVars>>

notWatchlist == <<notMore, filenameVars, libraryVars, bookmarkVars>>

\* the variables of the other exported functions
others == <<api, tables, search, lst, more>>

\* the variables of the calls checked on their own
calls == <<fnChanges, fnRegex, fnList, fnReturned, others>>

locals == <<resetRequired, state, found, version, changes, changedPosts, idx,
            progress, post, existingPost, ckVersion, ckRet, skipped, abortedAt,
            emitted, postEvents>>

store == <<meta, posts>>

\* ------------------------------------------------------- archive (dat)
\* index of the last event of `name` in log, 0 when there is none
LastIndex(log, name) ==
  LET S == {i \in 1..Len(log) : log[i].name = name}
  IN IF S = {} THEN 0 ELSE CHOOSE i \in S : \A j \in S : j <= i

\* the file at `name` in the head of the archive
HeadFile(log, name) ==
  LET i == LastIndex(log, name)
  IN IF i = 0 \/ log[i].type = "del" THEN NoFile ELSE log[i].file

FileExists(log, name) == HeadFile(log, name) # NoFile

\* archive.history({start, end}): the change events with start <= version < end
History(log, start, end) ==
  LET lo == IF start < 1 THEN 1 ELSE start
      hi == IF end - 1 > Len(log) THEN Len(log) ELSE end - 1
      n == IF hi - lo + 1 > 0 THEN hi - lo + 1 ELSE 0
  IN [k \in 1..n |-> [name |-> log[lo + k - 1].name,
                      type |-> log[lo + k - 1].type,
                      version |-> log[lo + k - 1].version]]

\* pda.writeFile: 'add' for a new file, 'change' for an existing one
WriteFile(log, name, file) ==
  Append(log, [name |-> name,
               type |-> IF FileExists(log, name) THEN "change" ELSE "add",
               version |-> Len(log) + 1,
               file |-> file])

\* pda.unlink
Unlink(log, name) ==
  Append(log, [name |-> name, type |-> "del", version |-> Len(log) + 1,
               file |-> NoFile])

\* ------------------------------------------------- crawler/util helpers
\* db.get(SELECT ... FROM crawl_sources_meta WHERE ...): first row or none
GetState(rows) == IF rows = <<>> THEN NoRow ELSE rows[1]

\* doCrawl: if (state && state.crawlDatasetVersion !== crawlDatasetVersion)
ResetNeededAlsoWhenAbsent(row, crawlDatasetVersion) ==
  row = NoRow \/ row.crawlDatasetVersion # crawlDatasetVersion

ResetNeeded(row, crawlDatasetVersion) ==
  row # NoRow /\ row.crawlDatasetVersion # crawlDatasetVersion

\* doCrawl: the state.crawlSourceVersion the run works from
StateVersion(row, crawlDatasetVersion) ==
  IF row = NoRow \/ ResetNeeded(row, crawlDatasetVersion)
  THEN 0 ELSE row.crawlSourceVersion

\* doCrawl: let start = state.crawlSourceVersion + 1
WindowStartInclusive(crawlSourceVersion) == crawlSourceVersion

WindowStart(crawlSourceVersion) == crawlSourceVersion + 1

\* doCrawl: let end = version + 1
WindowEndExclusive(v) == v

WindowEnd(v) == v + 1

\* doCrawl: the crawlSourceVersion of the final checkpoint
FinalVersionStale(v, crawlSourceVersion) == crawlSourceVersion

FinalVersion(v, crawlSourceVersion) == v

\* list.findIndex(c2 => c2.name === name), 0 for -1
FindIndex(list, name) ==
  LET S == {i \in 1..Len(list) : list[i].name = name}
  IN IF S = {} THEN 0 ELSE CHOOSE i \in S : \A j \in S : i <= j

\* list.splice(i, 1)
Splice(list, i) ==
  [k \in 1..(Len(list) - 1) |-> IF k < i THEN list[k] ELSE list[k + 1]]

\* a variant that never removes the earlier event of a name
getMatchingChangesNoSplice(cs, regex) ==
  LET f[n \in 0..Len(cs)] ==
        IF n = 0 THEN <<>>
        ELSE LET list == f[n - 1]
                 c == cs[n]
             IN IF ~RegexTest(regex, c.name) THEN list
                ELSE Append(list, c)
  IN f[Len(cs)]

\* a variant that overwrites the old position instead of moving the entry
getMatchingChangesInPlace(cs, regex) ==
  LET f[n \in 0..Len(cs)] ==
        IF n = 0 THEN <<>>
        ELSE LET list == f[n - 1]
                 c == cs[n]
                 i == FindIndex(list, c.name)
             IN IF ~RegexTest(regex, c.name) THEN list
                ELSE IF i # 0 THEN [list EXCEPT ![i] = c]
                ELSE Append(list, c)
  IN f[Len(cs)]

getMatchingChangesInOrder(cs, regex) ==
  LET f[n \in 0..Len(cs)] ==
        IF n = 0 THEN <<>>
        ELSE LET list == f[n - 1]
                 c == cs[n]
                 i == FindIndex(list, c.name)
             IN IF ~RegexTest(regex, c.name) THEN list
                ELSE IF i # 0 THEN Append(Splice(list, i), c)
                ELSE Append(list, c)
  IN f[Len(cs)]

\* crawlerEvents.emit('crawl-dataset-start', {sourceUrl, crawlDataset, crawlRange})
StartEvent(start, end) ==
  [event |-> "crawl-dataset-start", sourceUrl |-> SourceUrl,
   crawlDataset |-> TABLE_NAME, crawlRange |-> [start |-> start, end |-> end]]

\* a variant whose finish event reports the range left after the run
FinishEventRecomputed(start, end) ==
  [event |-> "crawl-dataset-finish", sourceUrl |-> SourceUrl,
   crawlDataset |-> TABLE_NAME, crawlRange |-> [start |-> end, end |-> end]]

\* crawlerEvents.emit('crawl-dataset-finish', {sourceUrl, crawlDataset, crawlRange})
FinishEvent(start, end) ==
  [event |-> "crawl-dataset-finish", sourceUrl |-> SourceUrl,
   crawlDataset |-> TABLE_NAME, crawlRange |-> [start |-> start, end |-> end]]

\* doCheckpoint: DELETE FROM crawl_sources_meta WHERE crawlDataset, crawlSourceId
CheckpointDelete(rows) == <<>>

\* doCheckpoint: INSERT INTO crawl_sources_meta
CheckpointInsert(rows, crawlDatasetVersion, crawlSourceVersion) ==
  Append(rows, [crawlDatasetVersion |-> crawlDatasetVersion,
                crawlSourceVersion |-> crawlSourceVersion])

\* ------------------------------------------------ crawler/posts helpers
\* validatePost(JSON.parse(postString))
validatePost(file) == file.type = JSON_TYPE

\* DELETE FROM crawl_posts WHERE crawlSourceId = ?
ResetRowsKept(rows) == rows

ResetRows(rows) == <<>>

\* DELETE FROM crawl_posts WHERE crawlSourceId = ? AND pathname = ?
DeleteRow(rows, pathname) ==
  SelectSeq(rows, LAMBDA r : r.pathname # pathname)

\* (new URL(url)).origin
Origin(url) ==
  IF url.protocol \in SpecialSchemes THEN url ELSE NullOrigin

\* get(url, pathname): the first row of the source whose crawl_sources.url is
\* the origin of url with that pathname, or null
get(url, rows, pathname) ==
  LET S == {i \in 1..Len(rows) :
              CrawlSourceUrl = Origin(url) /\ rows[i].pathname = pathname}
  IN IF S = {} THEN NoPost ELSE rows[CHOOSE i \in S : \A j \in S : i <= j]

\* UPDATE crawl_posts SET body = ? WHERE crawlSourceId = ? AND pathname = ?
UpdateRow(rows, pathname, body) ==
  [k \in 1..Len(rows) |->
     IF rows[k].pathname = pathname
     THEN [pathname |-> pathname, body |-> body] ELSE rows[k]]

\* INSERT INTO crawl_posts
InsertRow(rows, pathname, body) ==
  Append(rows, [pathname |-> pathname, body |-> body])

\* ------------------------------------------------ crawler/search: data
\* how many values Math.random() * 1e3 | 0 takes here (1e3 in the code)
NonceRange == 2

\* the concurrent callers of listSearchResults
Callers == {1, 2}

\* crawl_sources: the user and two other sites, as id -> url
UserUrl == "dat://user"
BUrl == "dat://b"
CUrl == "dat://c"
crawl_sources == <<UserUrl, BUrl, CUrl>>

\* SELECT id FROM crawl_sources WHERE url = ?
SourceId(url) == CHOOSE id \in 1..Len(crawl_sources) : crawl_sources[id] = url

\* the rows the index may hold
FollowPool ==
  {[crawlSourceId |-> 1, destUrl |-> BUrl, crawledAt |-> 1],
   [crawlSourceId |-> 2, destUrl |-> CUrl, crawledAt |-> 2]}

DescriptionPool ==
  {[crawlSourceId |-> 2, url |-> BUrl, crawledAt |-> 1, title |-> "A Foo Bar"],
   [crawlSourceId |-> 1, url |-> BUrl, crawledAt |-> 3, title |-> "Foo site"]}

LinkPostPool ==
  {[crawlSourceId |-> 2, url |-> CUrl, pathname |-> "/p1", crawledAt |-> 2,
    title |-> "A Foo Bar"],
   [crawlSourceId |-> 3, url |-> BUrl, pathname |-> "/p2", crawledAt |-> 1,
    title |-> "other"]}

PublishedSitePool ==
  {[crawlSourceId |-> 1, url |-> BUrl, crawledAt |-> 2]}

\* a table holding the rows of S, in rowid order (by crawledAt, then owner)
TableOf(S) ==
  LET Before(a, b) == \/ a.crawledAt < b.crawledAt
                      \/ a.crawledAt = b.crawledAt /\ a.crawlSourceId < b.crawlSourceId
      f[T \in SUBSET S] ==
        IF T = {} THEN <<>>
        ELSE LET last == CHOOSE r \in T : \A o \in T \ {r} : Before(o, r)
             IN Append(f[T \ {last}], last)
  IN f[S]

\* JavaScript numbers, in halves (Halves(3) is 1.5), NaN and undefined
Halves(h) == [t |-> "number", halves |-> h]
Whole(n) == Halves(2 * n)
NaN == [t |-> "NaN", halves |-> 0]
NoNumber == [t |-> "undefined", halves |-> 0]

\* Math.floor(x): undefined converts to NaN
MathFloor(x) ==
  IF x.t = "number" THEN Halves(2 * (x.halves \div 2)) ELSE NaN

\* Math.max(x, n) and Math.min(x, n) for a whole n: NaN if x is NaN
MathMax(x, n) ==
  IF x.t # "number" THEN NaN ELSE IF x.halves > 2 * n THEN x ELSE Whole(n)

MathMin(x, n) ==
  IF x.t # "number" THEN NaN ELSE IF x.halves < 2 * n THEN x ELSE Whole(n)

\* hops = Math.min(Math.max(Math.floor(hops), 1), 2)
ClampHops(hops) == MathMin(MathMax(MathFloor(hops), 1), 2)

\* x || d for a whole-number option x
OrDefault(x, d) ==
  IF x.t # "number" \/ x.halves = 0 THEN d ELSE x.halves \div 2

\* the search query: lower-cased, symbols stripped, '*' appended
NoQuery == ""
PrepQuery(query) == IF query = "Foo" THEN "foo*" ELSE query

\* crawl_..._fts_index MATCH query: a title with a word starting with foo
Matches(row, query) ==
  query = "foo*" /\ row.title \in {"A Foo Bar", "Foo site"}

\* `{${highlightNonce}}` and `{/${highlightNonce}}`
StartHighlight(highlightNonce) == [open |-> "{", nonce |-> highlightNonce]
EndHighlight(highlightNonce) == [open |-> "{/", nonce |-> highlightNonce]
NoHighlight == [open |-> "", nonce |-> -1]

\* crawlSourceIds is left undefined when hops is neither 1 nor 2
NoIds == [defined |-> FALSE, ids |-> {}]
Ids(S) == [defined |-> TRUE, ids |-> S]

\* SELECT id FROM crawl_sources src INNER JOIN crawl_followgraph fgraph
\*   ON fgraph.destUrl = src.url AND fgraph.crawlSourceId = ?
FollowedIds(fgraph, id) ==
  {SourceId(fgraph[i].destUrl) : i \in {k \in 1..Len(fgraph) : fgraph[k].crawlSourceId = id}}

\* construct set of crawl sources to query
ScopeIds(hops, fgraph, userCrawlSourceId) ==
  IF hops = Whole(2) THEN Ids({userCrawlSourceId} \cup FollowedIds(fgraph, userCrawlSourceId))
  ELSE IF hops = Whole(1) THEN Ids({userCrawlSourceId})
  ELSE NoIds

\* a LEFT JOIN crawl_followgraph ON destUrl = url: the edges, or one NULL row
NullEdge == [crawlSourceId |-> 0, destUrl |-> "", crawledAt |-> 0]

JoinEdges(fgraph, url) ==
  LET es == SelectSeq(fgraph, LAMBDA e : e.destUrl = url)
  IN IF es = <<>> THEN <<NullEdge>> ELSE es

\* whereIn('crawl_followgraph.crawlSourceId', crawlSourceIds)
WhereIn(edge, crawlSourceIds) ==
  crawlSourceIds.defined /\ edge.crawlSourceId \in crawlSourceIds.ids

\* a row of a dataset query
QueryRow(url, authorUrl, crawledAt, pathname, startHighlight, endHighlight) ==
  [url |-> url, authorUrl |-> authorUrl, crawledAt |-> crawledAt,
   pathname |-> pathname, startHighlight |-> startHighlight,
   endHighlight |-> endHighlight]

\* the SNIPPET markers of a query's rows: none without a query
Marker(query, highlight) == IF query = NoQuery THEN NoHighlight ELSE highlight

\* buildFollowGraphSearchQuery, before ORDER BY / LIMIT / OFFSET
FollowGraphRows(index, query, crawlSourceIds, user, userCrawlSourceId, since, startHighlight, endHighlight) ==
  LET RowsOf(d) ==
        LET kept == SelectSeq(JoinEdges(index.crawl_followgraph, d.url),
                      LAMBDA e :
                        /\ query # NoQuery => Matches(d, query)
                        /\ \/ WhereIn(e, crawlSourceIds)
                           \/ d.url = user /\ d.crawlSourceId = userCrawlSourceId
                        /\ d.crawledAt >= since)
        IN [k \in 1..Len(kept) |->
              QueryRow(d.url, crawl_sources[d.crawlSourceId], d.crawledAt, "",
                       Marker(query, startHighlight), Marker(query, endHighlight))]
      ds == index.crawl_site_descriptions
      f[n \in 0..Len(ds)] == IF n = 0 THEN <<>> ELSE f[n - 1] \o RowsOf(ds[n])
  IN f[Len(ds)]

\* the url the follow edges are joined on: crawl_sources.url (the author) with
\* a query, crawl_link_posts.url (the link) without one
LinkPostJoinUrl(p, query) ==
  IF query # NoQuery THEN crawl_sources[p.crawlSourceId] ELSE p.url

\* buildLinkPostsSearchQuery, before ORDER BY / LIMIT / OFFSET
LinkPostsRows(index, query, crawlSourceIds, userCrawlSourceId, since, startHighlight, endHighlight) ==
  LET RowsOf(p) ==
        LET kept == SelectSeq(JoinEdges(index.crawl_followgraph,
                                        LinkPostJoinUrl(p, query)),
                      LAMBDA e :
                        /\ query # NoQuery => Matches(p, query)
                        /\ \/ WhereIn(e, crawlSourceIds)
                           \/ p.crawlSourceId = userCrawlSourceId
                        /\ p.crawledAt >= since)
        IN [k \in 1..Len(kept) |->
              QueryRow(p.url, crawl_sources[p.crawlSourceId], p.crawledAt,
                       p.pathname,
                       Marker(query, startHighlight), Marker(query, endHighlight))]
      ps == index.crawl_link_posts
      f[n \in 0..Len(ps)] == IF n = 0 THEN <<>> ELSE f[n - 1] \o RowsOf(ps[n])
  IN f[Len(ps)]

\* .andWhere('crawl_published_sites.crawledAt', '>=', since)
SinceColumn(s, d) == s.crawledAt

\* buildPublishedSitesSearchQuery, before ORDER BY / LIMIT / OFFSET: each
\* published site joined with the descriptions of its url and with the
\* follow edges to its publisher; crawledAt is the description's
PublishedSitesRows(index, query, crawlSourceIds, userCrawlSourceId, since, startHighlight, endHighlight) ==
  LET RowsOfPair(s, d) ==
        LET kept == SelectSeq(JoinEdges(index.crawl_followgraph,
                                        crawl_sources[s.crawlSourceId]),
                      LAMBDA e :
                        /\ d.url = s.url
                        /\ query # NoQuery => Matches(d, query)
                        /\ \/ WhereIn(e, crawlSourceIds)
                           \/ s.crawlSourceId = userCrawlSourceId
                        /\ SinceColumn(s, d) >= since)
        IN [k \in 1..Len(kept) |->
              QueryRow(s.url, crawl_sources[s.crawlSourceId], d.crawledAt, "",
                       Marker(query, startHighlight), Marker(query, endHighlight))]
      ds == index.crawl_site_descriptions
      ss == index.crawl_published_sites
      RowsOf(s) ==
        LET g[n \in 0..Len(ds)] ==
              IF n = 0 THEN <<>> ELSE g[n - 1] \o RowsOfPair(s, ds[n])
        IN g[Len(ds)]
      f[n \in 0..Len(ss)] == IF n = 0 THEN <<>> ELSE f[n - 1] \o RowsOf(ss[n])
  IN f[Len(ss)]

\* ORDER BY crawledAt: the orders of the rows the engine may return
OrderBy(rows) ==
  LET n == Len(rows)
      perms == {p \in [1..n -> 1..n] : \A i, j \in 1..n : i # j => p[i] # p[j]}
      sorted == {p \in perms :
                   \A i, j \in 1..n :
                     i < j => rows[p[i]].crawledAt <= rows[p[j]].crawledAt}
  IN {[k \in 1..n |-> rows[p[k]]] : p \in sorted}

\* LIMIT limit OFFSET offset
LimitOffset(rows, limit, offset) ==
  LET hi == IF offset + limit < Len(rows) THEN offset + limit ELSE Len(rows)
  IN SubSeq(rows, offset + 1, hi)

\* a variant that keeps the last row of each url
uniqWithLast(rows) ==
  LET keep == {i \in 1..Len(rows) :
                 \A j \in 1..Len(rows) : j > i => rows[j].url # rows[i].url}
      f[n \in 0..Len(rows)] ==
        IF n = 0 THEN <<>>
        ELSE IF n \in keep THEN Append(f[n - 1], rows[n]) ELSE f[n - 1]
  IN f[Len(rows)]

\* _uniqWith(rows, (a, b) => a.url === b.url): the first row of each url
uniqWith(rows) ==
  LET f[n \in 0..Len(rows)] ==
        IF n = 0 THEN <<>>
        ELSE IF \E k \in 1..Len(f[n - 1]) : f[n - 1][k].url = rows[n].url
             THEN f[n - 1]
             ELSE Append(f[n - 1], rows[n])
  IN f[Len(rows)]

\* siteDescriptions.getBest({subject, author}): the description of subject by
\* author when there is one, else the self-description, else a known one
NoDescription == [crawlSourceId |-> 0, url |-> "", crawledAt |-> 0, title |-> ""]

getBest(descriptions, subject, author) ==
  LET by == SelectSeq(descriptions, LAMBDA d :
              d.url = subject /\ crawl_sources[d.crawlSourceId] = author)
      self == SelectSeq(descriptions, LAMBDA d :
                d.url = subject /\ crawl_sources[d.crawlSourceId] = subject)
      known == SelectSeq(descriptions, LAMBDA d : d.url = subject)
  IN IF by # <<>> THEN by[1]
     ELSE IF self # <<>> THEN self[1]
     ELSE IF known # <<>> THEN known[1]
     ELSE NoDescription

\* an entry of searchResults.results
Result(resultType, url, authorUrl, crawledAt, startHighlight, endHighlight) ==
  [resultType |-> resultType, url |-> url, authorUrl |-> authorUrl,
   crawledAt |-> crawledAt, startHighlight |-> startHighlight,
   endHighlight |-> endHighlight]

\* the 'user' results: the rows themselves, massaged
UserResults(rows) ==
  [k \in 1..Len(rows) |->
     Result("user", rows[k].url, rows[k].authorUrl, rows[k].crawledAt,
            rows[k].startHighlight, rows[k].endHighlight)]

\* the 'post' results: url is authorUrl + pathname
PostResults(rows) ==
  [k \in 1..Len(rows) |->
     Result("post", rows[k].authorUrl \o rows[k].pathname, rows[k].authorUrl,
            rows[k].crawledAt, rows[k].startHighlight, rows[k].endHighlight)]

\* the 'site' results: the best description of row.url by row.authorUrl, with
\* the row's highlighted title and description
SiteResults(rows, descriptions) ==
  [k \in 1..Len(rows) |->
     LET result == getBest(descriptions, rows[k].url, rows[k].authorUrl)
     IN Result("site", result.url, rows[k].authorUrl, result.crawledAt,
               rows[k].startHighlight, rows[k].endHighlight)]

\* a variant of the sort that puts the oldest entry first
SortAscending(results) ==
  LET Insert(list, r) ==
        LET pos == Cardinality({k \in 1..Len(list) : list[k].crawledAt <= r.crawledAt})
        IN SubSeq(list, 1, pos) \o <<r>> \o SubSeq(list, pos + 1, Len(list))
      f[n \in 0..Len(results)] ==
        IF n = 0 THEN <<>> ELSE Insert(f[n - 1], results[n])
  IN f[Len(results)]

\* results.sort((a, b) => b.crawledAt - a.crawledAt): stable, newest first
SortByCrawledAt(results) ==
  LET Insert(list, r) ==
        LET pos == Cardinality({k \in 1..Len(list) : list[k].crawledAt >= r.crawledAt})
        IN SubSeq(list, 1, pos) \o <<r>> \o SubSeq(list, pos + 1, Len(list))
      f[n \in 0..Len(results)] ==
        IF n = 0 THEN <<>> ELSE Insert(f[n - 1], results[n])
  IN f[Len(results)]

\* results.slice(0, limit)
Slice(results, limit) ==
  SubSeq(results, 1, IF limit < Len(results) THEN limit ELSE Len(results))

\* the tables with no row
NoTables ==
  [crawl_followgraph |-> <<>>, crawl_site_descriptions |-> <<>>,
   crawl_link_posts |-> <<>>, crawl_published_sites |-> <<>>]

\* the opts of a call, and the opts once the call works from its locals
Opts(user, query, hops, since, limit) ==
  [user |-> user, query |-> query, hops |-> hops, since |-> since, limit |-> limit]

NoOpts == Opts("", NoQuery, NoNumber, NoNumber, NoNumber)

\* no listSearchResults call
NoSearch ==
  [pc |-> "none", opts |-> NoOpts, highlightNonce |-> -1,
   startHighlight |-> NoHighlight, endHighlight |-> NoHighlight,
   user |-> "", query |-> NoQuery, hops |-> NoNumber, since |-> 0, offset |-> 0,
   limit |-> 0, userCrawlSourceId |-> 0, crawlSourceIds |-> NoIds,
   fgRows |-> <<>>, psRows |-> <<>>, used |-> {}, results |-> <<>>]

\* a call that has been made with opts and has not run yet
Pending(opts) == [NoSearch EXCEPT !.pc = "start", !.opts = opts]

\* -------------------------------------------------------------- state
CrawlInit ==
  /\ archive = <<>>
  /\ meta = <<>>
  /\ posts = <<>>
  /\ tableVersion = TABLE_VERSION
  /\ lockHolder = NoHolder
  /\ pc = [p \in Procs |-> "idle"]
  /\ resetRequired = [p \in Procs |-> FALSE]
  /\ state = [p \in Procs |-> 0]
  /\ found = [p \in Procs |-> FALSE]
  /\ version = [p \in Procs |-> 0]
  /\ changes = [p \in Procs |-> <<>>]
  /\ changedPosts = [p \in Procs |-> <<>>]
  /\ idx = [p \in Procs |-> 0]
  /\ progress = [p \in Procs |-> 0]
  /\ post = [p \in Procs |-> NoFile]
  /\ existingPost = [p \in Procs |-> NoPost]
  /\ ckVersion = [p \in Procs |-> 0]
  /\ ckRet = [p \in Procs |-> ""]
  /\ skipped = [p \in Procs |-> {}]
  /\ abortedAt = [p \in Procs |-> 0]
  /\ emitted = [p \in Procs |-> <<>>]
  /\ postEvents = [p \in Procs |-> <<>>]

\* no call of getMatchingChangesInOrder on its own
NoCall ==
  /\ fnChanges = <<>>
  /\ fnRegex = {}
  /\ fnList = <<>>
  /\ fnReturned = FALSE

\* ----------------------------------------------- dat/watchlist: data
MaxWatches == 3

\* the urls of the sites put on the watchlist
Sites == {"dat://s", "dat://t"}

\* a watch call that was not made
NoWatch == [url |-> "", resolved |-> 0, pc |-> "unused"]

\* ----------------------------------------------- dbs/bookmarks: data
\* the callers of the bookmark mutations
Mutators == {1, 2}

\* no mutation running
NoMutation ==
  [pc |-> "idle", op |-> "", target |-> Undefined, href |-> Undefined,
   title |-> Undefined, found |-> FALSE]

\* ------------------------------------------------- dat/library: data
MaxLoads == 3
MaxTime == 3
\* the 5 seconds of setTimeout(r, 5e3), in time units
WaitPeriod == 2

\* the keys of the archives, and a string that is no key
Keys == {"a", "b"}
BadKey == "not a key"

\* archivesDb.query(0, {isSaved: true}): the saved archives
SavedArchives == <<"a", "b">>

\* a load that was not started
NoLoad == [key |-> "", pc |-> "unused", by |-> "", startedAt |-> 0]

\* no loadArchive call yet
NoLoadCall == [key |-> "", load |-> 0, threw |-> FALSE]

\* no filename generated yet: var _lastGeneratedTimeFilename is undefined
FilenameInit ==
  /\ clock = 0
  /\ lastGeneratedTimeFilename = {}
  /\ filenames = <<>>

\* dat/library as loaded: no archive in memory, no load in flight
LibraryInit ==
  /\ archives = {}
  /\ archiveLoadPromises = [k \in Keys |-> 0]
  /\ loads = [l \in 1..MaxLoads |-> NoLoad]
  /\ lastCall = NoLoadCall
  /\ unloading = {}
  /\ unloaded = [k \in Keys |-> FALSE]
  /\ saved = [pc |-> "idle", i |-> 0, timer |-> 0]
  /\ now = 0

\* dbs/bookmarks: an empty table, the lock free, no mutation running
BookmarksInit ==
  /\ bookmarks = {}
  /\ bookmarksLock = 0
  /\ bm = [m \in Mutators |-> NoMutation]

\* dat/watchlist: no site watched, no event emitted
WatchlistInit ==
  /\ watchlist = {}
  /\ watches = [w \in 1..MaxWatches |-> NoWatch]
  /\ resolvedEvents = [url \in Sites |-> 0]
  /\ loadedSites = {}

\* the modules beside the crawler as they are when loaded
MoreInit == FilenameInit /\ LibraryInit /\ BookmarksInit /\ WatchlistInit

\* no call of the other exported functions
NoOtherCall ==
  /\ api = NoApi
  /\ tables = NoTables
  /\ search = [c \in Callers |-> NoSearch]
  /\ lst = NoList
  /\ MoreInit

Init ==
  /\ CrawlInit
  /\ NoCall
  /\ NoOtherCall

\* the locals of invocation p are dropped when its doCrawl call ends
ClearLocals(p) ==
  /\ resetRequired' = [resetRequired EXCEPT ![p] = FALSE]
  /\ state' = [state EXCEPT ![p] = 0]
  /\ found' = [found EXCEPT ![p] = FALSE]
  /\ version' = [version EXCEPT ![p] = 0]
  /\ changes' = [changes EXCEPT ![p] = <<>>]
  /\ changedPosts' = [changedPosts EXCEPT ![p] = <<>>]
  /\ idx' = [idx EXCEPT ![p] = 0]
  /\ progress' = [progress EXCEPT ![p] = 0]
  /\ post' = [post EXCEPT ![p] = NoFile]
  /\ existingPost' = [existingPost EXCEPT ![p] = NoPost]
  /\ ckVersion' = [ckVersion EXCEPT ![p] = 0]
  /\ ckRet' = [ckRet EXCEPT ![p] = ""]
  /\ skipped' = [skipped EXCEPT ![p] = {}]
  /\ abortedAt' = [abortedAt EXCEPT ![p] = 0]
  /\ postEvents' = [postEvents EXCEPT ![p] = <<>>]

\* the entry the for-of loop of invocation p is at
Entry(p) == changedPosts[p][idx[p]]

\* --------------------------------------------- archive writes, triggers
\* posts.create: a valid post in a fresh /data/feed file, then crawlSite
Create(p, name, body) ==
  /\ p = WriteApi
  /\ pc[p] = "idle"
  /\ Len(archive) < MaxVersion
  /\ RegexTest(JSON_PATH_REGEX, name)
  /\ LastIndex(archive, name) = 0
  /\ archive' = WriteFile(archive, name, [type |-> JSON_TYPE, body |-> body])
  /\ pc' = [pc EXCEPT ![p] = "waiting"]
  /\ UNCHANGED <<store, tableVersion, lockHolder, locals>>
  /\ UNCHANGED calls

\* posts.edit: rewrite an existing file with a valid post, then crawlSite
Edit(p, name, body) ==
  /\ p = WriteApi
  /\ pc[p] = "idle"
  /\ RegexTest(JSON_PATH_REGEX, name)
  /\ Len(archive) < MaxVersion
  /\ FileExists(archive, name)
  /\ archive' = WriteFile(archive, name, [type |-> JSON_TYPE, body |-> body])
  /\ pc' = [pc EXCEPT ![p] = "waiting"]
  /\ UNCHANGED <<store, tableVersion, lockHolder, locals>>
  /\ UNCHANGED calls

\* posts.delete: unlink an existing file, then crawlSite
Delete(p, name) ==
  /\ p = WriteApi
  /\ pc[p] = "idle"
  /\ RegexTest(JSON_PATH_REGEX, name)
  /\ Len(archive) < MaxVersion
  /\ FileExists(archive, name)
  /\ archive' = Unlink(archive, name)
  /\ pc' = [pc EXCEPT ![p] = "waiting"]
  /\ UNCHANGED <<store, tableVersion, lockHolder, locals>>
  /\ UNCHANGED calls

\* a write to the archive by another application (archive proxy writeFile)
ExternalWrite(name, file) ==
  /\ Len(archive) < MaxVersion
  /\ \/ name = FeedA /\ file = Junk /\ HeadFile(archive, name) # Junk
     \/ name = Other /\ file = GoodP /\ ~FileExists(archive, name)
  /\ archive' = WriteFile(archive, name, file)
  /\ UNCHANGED <<store, tableVersion, lockHolder, pc, locals>>
  /\ UNCHANGED calls

\* the crawl scheduler asks for a crawl of the archive
Schedule(p) ==
  /\ p = Scheduler
  /\ pc[p] = "idle"
  /\ pc' = [pc EXCEPT ![p] = "waiting"]
  /\ UNCHANGED <<archive, store, tableVersion, lockHolder, locals>>
  /\ UNCHANGED calls

\* crawler.crawlSite: the per-archive lock of the crawl
LockNotTaken(holder) == TRUE

LockFree(holder) == holder = NoHolder

\* crawler.crawlSite: take the lock, then posts.crawlSite -> doCrawl
Acquire(p) ==
  /\ pc[p] = "waiting"
  /\ LockFree(lockHolder)
  /\ lockHolder' = p
  /\ pc' = [pc EXCEPT ![p] = "readState"]
  /\ UNCHANGED <<archive, store, tableVersion, locals>>
  /\ UNCHANGED calls

\* ------------------------------------------------------------- doCrawl
\* fetch current crawl state
ReadState(p) ==
  /\ pc[p] = "readState"
  /\ LET row == GetState(meta)
     IN /\ found' = [found EXCEPT ![p] = row # NoRow]
        /\ resetRequired' = [resetRequired EXCEPT ![p] = ResetNeeded(row, tableVersion)]
        /\ state' = [state EXCEPT ![p] = StateVersion(row, tableVersion)]
  /\ pc' = [pc EXCEPT ![p] = "getVersion"]
  /\ UNCHANGED <<archive, store, tableVersion, lockHolder, version, changes,
                 changedPosts, idx, progress, post, existingPost, ckVersion,
                 ckRet, skipped, abortedAt, emitted, postEvents>>
  /\ UNCHANGED calls

\* a variant that announces the crawl before the change log is fetched
GetVersionEmitsStart(p) ==
  /\ pc[p] = "getVersion"
  /\ version' = [version EXCEPT ![p] = Len(archive)]
  /\ emitted' = [emitted EXCEPT ![p] =
       Append(@, StartEvent(WindowStart(state[p]), WindowEnd(Len(archive))))]
  /\ pc' = [pc EXCEPT ![p] = "history"]
  /\ UNCHANGED <<archive, store, tableVersion, lockHolder, resetRequired, state,
                 found, changes, changedPosts, idx, progress, post,
                 existingPost, ckVersion, ckRet, skipped, abortedAt, postEvents>>
  /\ UNCHANGED calls

\* fetch current archive version
GetVersion(p) ==
  /\ pc[p] = "getVersion"
  /\ version' = [version EXCEPT ![p] = Len(archive)]
  /\ pc' = [pc EXCEPT ![p] = "history"]
  /\ UNCHANGED <<archive, store, tableVersion, lockHolder, resetRequired, state,
                 found, changes, changedPosts, idx, progress, post,
                 existingPost, ckVersion, ckRet, skipped, abortedAt, emitted, postEvents>>
  /\ UNCHANGED calls

\* fetch change log; then 'crawl-dataset-start' and the handler is entered
FetchChanges(p) ==
  /\ pc[p] = "history"
  /\ changes' = [changes EXCEPT ![p] =
       History(archive, WindowStart(state[p]), WindowEnd(version[p]))]
  /\ emitted' = [emitted EXCEPT ![p] =
       Append(@, StartEvent(WindowStart(state[p]), WindowEnd(version[p])))]
  /\ pc' = [pc EXCEPT ![p] = "handler"]
  /\ UNCHANGED <<archive, store, tableVersion, lockHolder, resetRequired, state,
                 found, version, changedPosts, idx, progress, post,
                 existingPost, ckVersion, ckRet, skipped, abortedAt, postEvents>>
  /\ UNCHANGED calls

\* doCrawl rejects: its locals and the events it emitted are dropped, and
\* crawler.crawlSite releases the lock
Reject(p) ==
  /\ pc' = [pc EXCEPT ![p] = "idle"]
  /\ lockHolder' = IF lockHolder = p THEN NoHolder ELSE lockHolder
  /\ ClearLocals(p)
  /\ emitted' = [emitted EXCEPT ![p] = <<>>]

\* the history stream fails or times out: doCrawl rejects
FetchFails(p) ==
  /\ pc[p] = "history"
  /\ Reject(p)
  /\ UNCHANGED <<archive, store, tableVersion>>
  /\ UNCHANGED calls

\* -------------------------------------------- posts.crawlSite handler
\* if (resetRequired): reset all data, then doCheckpoint(..., 0)
HandlerReset(p) ==
  /\ pc[p] = "handler"
  /\ resetRequired[p]
  /\ posts' = ResetRows(posts)
  /\ ckVersion' = [ckVersion EXCEPT ![p] = 0]
  /\ ckRet' = [ckRet EXCEPT ![p] = "collect"]
  /\ pc' = [pc EXCEPT ![p] = "ckDelete"]
  /\ UNCHANGED <<archive, meta, tableVersion, lockHolder, resetRequired, state,
                 found, version, changes, changedPosts, idx, progress, post,
                 existingPost, skipped, abortedAt, emitted, postEvents>>
  /\ UNCHANGED calls

\* collect changed posts, emit progress, enter the loop
CollectChangedPosts(p) ==
  /\ changedPosts' = [changedPosts EXCEPT ![p] =
       getMatchingChangesInOrder(changes[p], JSON_PATH_REGEX)]
  /\ idx' = [idx EXCEPT ![p] = 1]
  /\ progress' = [progress EXCEPT ![p] = 0]
  /\ pc' = [pc EXCEPT ![p] = "loop"]

\* no reset: the handler goes straight to the loop
HandlerNoReset(p) ==
  /\ pc[p] = "handler"
  /\ ~resetRequired[p]
  /\ CollectChangedPosts(p)
  /\ UNCHANGED <<archive, store, tableVersion, lockHolder, resetRequired, state,
                 found, version, changes, post, existingPost, ckVersion, ckRet,
                 skipped, abortedAt, emitted, postEvents>>
  /\ UNCHANGED calls

\* the handler returns to doCrawl, which calls the final checkpoint
ReturnToDoCrawl(p) ==
  /\ ckVersion' = [ckVersion EXCEPT ![p] = FinalVersion(version[p], state[p])]
  /\ ckRet' = [ckRet EXCEPT ![p] = "finish"]
  /\ pc' = [pc EXCEPT ![p] = "ckDelete"]

\* the loop is over
LoopDone(p) ==
  /\ pc[p] = "loop"
  /\ idx[p] > Len(changedPosts[p])
  /\ ReturnToDoCrawl(p)
  /\ UNCHANGED <<archive, store, tableVersion, lockHolder, resetRequired, state,
                 found, version, changes, changedPosts, idx, progress, post,
                 existingPost, skipped, abortedAt, emitted, postEvents>>
  /\ UNCHANGED calls

\* changedPost.type === 'del': delete the row, then checkpoint
ApplyDel(p) ==
  /\ pc[p] = "loop"
  /\ idx[p] <= Len(changedPosts[p])
  /\ Entry(p).type = "del"
  /\ posts' = DeleteRow(posts, Entry(p).name)
  /\ postEvents' = [postEvents EXCEPT ![p] = Append(@, "post-removed")]
  /\ ckVersion' = [ckVersion EXCEPT ![p] = Entry(p).version]
  /\ ckRet' = [ckRet EXCEPT ![p] = "next"]
  /\ pc' = [pc EXCEPT ![p] = "ckDelete"]
  /\ UNCHANGED <<archive, meta, tableVersion, lockHolder, resetRequired, state,
                 found, version, changes, changedPosts, idx, progress, post,
                 existingPost, skipped, abortedAt, emitted>>
  /\ UNCHANGED calls

\* archive.pda.readFile(changedPost.name) succeeds and the post is valid
ReadValid(p) ==
  /\ pc[p] = "loop"
  /\ idx[p] <= Len(changedPosts[p])
  /\ Entry(p).type # "del"
  /\ FileExists(archive, Entry(p).name)
  /\ validatePost(HeadFile(archive, Entry(p).name))
  /\ post' = [post EXCEPT ![p] = HeadFile(archive, Entry(p).name)]
  /\ pc' = [pc EXCEPT ![p] = "get"]
  /\ UNCHANGED <<archive, store, tableVersion, lockHolder, resetRequired, state,
                 found, version, changes, changedPosts, idx, progress,
                 existingPost, ckVersion, ckRet, skipped, abortedAt, emitted, postEvents>>
  /\ UNCHANGED calls

\* a variant in which a parse failure ends the handler like a read failure
ReadInvalidAborts(p) ==
  /\ pc[p] = "loop"
  /\ idx[p] <= Len(changedPosts[p])
  /\ Entry(p).type # "del"
  /\ FileExists(archive, Entry(p).name)
  /\ ~validatePost(HeadFile(archive, Entry(p).name))
  /\ skipped' = [skipped EXCEPT ![p] = @ \cup {Entry(p).version}]
  /\ ReturnToDoCrawl(p)
  /\ UNCHANGED <<archive, store, tableVersion, lockHolder, resetRequired, state,
                 found, version, changes, changedPosts, idx, progress, post,
                 existingPost, abortedAt, emitted, postEvents>>
  /\ UNCHANGED calls

\* readFile succeeds, parse or validation fails: skip (continue)
ReadInvalid(p) ==
  /\ pc[p] = "loop"
  /\ idx[p] <= Len(changedPosts[p])
  /\ Entry(p).type # "del"
  /\ FileExists(archive, Entry(p).name)
  /\ ~validatePost(HeadFile(archive, Entry(p).name))
  /\ skipped' = [skipped EXCEPT ![p] = @ \cup {Entry(p).version}]
  /\ idx' = [idx EXCEPT ![p] = @ + 1]
  /\ UNCHANGED <<archive, store, tableVersion, lockHolder, pc, resetRequired,
                 state, found, version, changes, changedPosts, progress, post,
                 existingPost, ckVersion, ckRet, abortedAt, emitted, postEvents>>
  /\ UNCHANGED calls

\* readFile fails (file gone or unreachable): return, aborting indexing
ReadFails(p) ==
  /\ pc[p] = "loop"
  /\ idx[p] <= Len(changedPosts[p])
  /\ Entry(p).type # "del"
  /\ abortedAt' = [abortedAt EXCEPT ![p] = Entry(p).version]
  /\ ReturnToDoCrawl(p)
  /\ UNCHANGED <<archive, store, tableVersion, lockHolder, resetRequired, state,
                 found, version, changes, changedPosts, idx, progress, post,
                 existingPost, skipped, emitted, postEvents>>
  /\ UNCHANGED calls

\* let existingPost = await get(archive.url, changedPost.name)
GetExisting(p) ==
  /\ pc[p] = "get"
  /\ existingPost' = [existingPost EXCEPT ![p] = get(SourceUrl, posts, Entry(p).name)]
  /\ pc' = [pc EXCEPT ![p] = "upsert"]
  /\ UNCHANGED <<archive, store, tableVersion, lockHolder, resetRequired, state,
                 found, version, changes, changedPosts, idx, progress, post,
                 ckVersion, ckRet, skipped, abortedAt, emitted, postEvents>>
  /\ UNCHANGED calls

\* UPDATE or INSERT, then checkpoint our progress (the table is kept to
\* MaxRows rows)
Upsert(p) ==
  /\ pc[p] = "upsert"
  /\ existingPost[p] = NoPost => Len(posts) < MaxRows
  /\ posts' = IF existingPost[p] # NoPost
              THEN UpdateRow(posts, Entry(p).name, post[p].body)
              ELSE InsertRow(posts, Entry(p).name, post[p].body)
  /\ postEvents' = [postEvents EXCEPT ![p] =
       Append(@, IF existingPost[p] # NoPost THEN "post-updated" ELSE "post-added")]
  /\ ckVersion' = [ckVersion EXCEPT ![p] = Entry(p).version]
  /\ ckRet' = [ckRet EXCEPT ![p] = "next"]
  /\ pc' = [pc EXCEPT ![p] = "ckDelete"]
  /\ UNCHANGED <<archive, meta, tableVersion, lockHolder, resetRequired, state,
                 found, version, changes, changedPosts, idx, progress, post,
                 existingPost, skipped, abortedAt, emitted>>
  /\ UNCHANGED calls

\* doCrawl, after the final checkpoint: 'crawl-dataset-finish' is emitted
EmitFinish(events, crawlSourceVersion, v) ==
  Append(events, FinishEvent(WindowStart(crawlSourceVersion), WindowEnd(v)))

\* -------------------------------------------------------- doCheckpoint
CkDelete(p) ==
  /\ pc[p] = "ckDelete"
  /\ meta' = CheckpointDelete(meta)
  /\ pc' = [pc EXCEPT ![p] = "ckInsert"]
  /\ UNCHANGED <<archive, posts, tableVersion, lockHolder, locals>>
  /\ UNCHANGED calls

CkInsert(p) ==
  /\ pc[p] = "ckInsert"
  /\ meta' = CheckpointInsert(meta, tableVersion, ckVersion[p])
  /\ ckVersion' = [ckVersion EXCEPT ![p] = 0]
  /\ ckRet' = [ckRet EXCEPT ![p] = ""]
  /\ post' = [post EXCEPT ![p] = NoFile]
  /\ existingPost' = [existingPost EXCEPT ![p] = NoPost]
  /\ IF ckRet[p] = "next"
     THEN /\ progress' = [progress EXCEPT ![p] = @ + 1]
          /\ idx' = [idx EXCEPT ![p] = @ + 1]
          /\ pc' = [pc EXCEPT ![p] = "loop"]
          /\ UNCHANGED changedPosts
     ELSE IF ckRet[p] = "collect"
     THEN CollectChangedPosts(p)
     ELSE /\ pc' = [pc EXCEPT ![p] = ckRet[p]]
          /\ UNCHANGED <<progress, idx, changedPosts>>
  /\ emitted' = [emitted EXCEPT ![p] =
       IF ckRet[p] = "finish" THEN EmitFinish(@, state[p], version[p]) ELSE @]
  /\ UNCHANGED <<archive, posts, tableVersion, lockHolder, resetRequired, state,
                 found, version, changes, skipped, abortedAt, postEvents>>
  /\ UNCHANGED calls

\* a db.run or db.get of the handler or of doCheckpoint rejects: the
\* exception leaves the handler and doCrawl rejects
DbFails(p) ==
  /\ pc[p] \in {"handler", "get", "upsert", "ckDelete", "ckInsert"}
  /\ Reject(p)
  /\ UNCHANGED <<archive, store, tableVersion>>
  /\ UNCHANGED calls

\* doCrawl resolves, crawler.crawlSite releases the lock
Finish(p) ==
  /\ pc[p] = "finish"
  /\ pc' = [pc EXCEPT ![p] = "idle"]
  /\ lockHolder' = IF lockHolder = p THEN NoHolder ELSE lockHolder
  /\ ClearLocals(p)
  /\ emitted' = [emitted EXCEPT ![p] = <<>>]
  /\ UNCHANGED <<archive, store, tableVersion>>
  /\ UNCHANGED calls

\* ---------------------------------------------------------- environment
\* the process dies: every pending invocation and the lock are gone
Crash ==
  /\ \E p \in Procs : pc[p] # "idle"
  /\ pc' = [p \in Procs |-> "idle"]
  /\ lockHolder' = NoHolder
  /\ resetRequired' = [p \in Procs |-> FALSE]
  /\ state' = [p \in Procs |-> 0]
  /\ found' = [p \in Procs |-> FALSE]
  /\ version' = [p \in Procs |-> 0]
  /\ changes' = [p \in Procs |-> <<>>]
  /\ changedPosts' = [p \in Procs |-> <<>>]
  /\ idx' = [p \in Procs |-> 0]
  /\ progress' = [p \in Procs |-> 0]
  /\ post' = [p \in Procs |-> NoFile]
  /\ existingPost' = [p \in Procs |-> NoPost]
  /\ ckVersion' = [p \in Procs |-> 0]
  /\ ckRet' = [p \in Procs |-> ""]
  /\ skipped' = [p \in Procs |-> {}]
  /\ abortedAt' = [p \in Procs |-> 0]
  /\ emitted' = [p \in Procs |-> <<>>]
  /\ postEvents' = [p \in Procs |-> <<>>]
  /\ UNCHANGED <<archive, store, tableVersion>>
  /\ UNCHANGED calls

\* a build with a bumped TABLE_VERSION is started
Upgrade ==
  /\ \A p \in Procs : pc[p] = "idle"
  /\ tableVersion < MaxEpoch
  /\ tableVersion' = tableVersion + 1
  /\ UNCHANGED <<archive, store, lockHolder, pc, locals>>
  /\ UNCHANGED calls

Next ==
  \/ \E p \in Procs, name \in Names : Create(p, name, "p")
  \/ \E p \in Procs : Edit(p, FeedA, "q")
  \/ \E p \in Procs : Delete(p, FeedA)
  \/ \E name \in Names, file \in {GoodP, Junk} : ExternalWrite(name, file)
  \/ \E p \in Procs : Schedule(p)
  \/ \E p \in Procs : Acquire(p)
  \/ \E p \in Procs : ReadState(p)
  \/ \E p \in Procs : GetVersion(p)
  \/ \E p \in Procs : FetchChanges(p)
  \/ \E p \in Procs : FetchFails(p)
  \/ \E p \in Procs : HandlerReset(p)
  \/ \E p \in Procs : HandlerNoReset(p)
  \/ \E p \in Procs : LoopDone(p)
  \/ \E p \in Procs : ApplyDel(p)
  \/ \E p \in Procs : ReadValid(p)
  \/ \E p \in Procs : ReadInvalid(p)
  \/ \E p \in Procs : ReadFails(p)
  \/ \E p \in Procs : GetExisting(p)
  \/ \E p \in Procs : Upsert(p)
  \/ \E p \in Procs : CkDelete(p)
  \/ \E p \in Procs : CkInsert(p)
  \/ \E p \in Procs : DbFails(p)
  \/ \E p \in Procs : Finish(p)
  \/ Crash
  \/ Upgrade

Spec == Init /\ [][Next]_vars

\* ------------------------------ getMatchingChangesInOrder on its own
\* the change lists of up to MaxChanges events, versions 1, 2, ... in order
ChangeLists ==
  UNION {[1..n -> Names \X {"add", "change", "del"}] : n \in 0..MaxChanges}

\* ------------------------------------------- the posts write API, whole
\* validatePostContent(content): content.body is a string
validatePostContent(content) == content.body.t = "string"

\* the record of a posts write API call
ApiCall(op, pathname, content, threw) ==
  [op |-> op, pathname |-> pathname, content |-> content, threw |-> threw]

\* the call throws: nothing but the record of the call changes
ApiThrows(op, pathname, content) ==
  /\ api' = ApiCall(op, pathname, content, TRUE)
  /\ UNCHANGED <<archive, store, tableVersion, lockHolder, pc, locals>>
  /\ UNCHANGED <<fnChanges, fnRegex, fnList, fnReturned, tables, search, lst, more>>

\* the call has written the archive and goes on to crawler.crawlSite
ApiCrawls(op, pathname, content) ==
  /\ api' = ApiCall(op, pathname, content, FALSE)
  /\ pc' = [pc EXCEPT ![WriteApi] = "waiting"]
  /\ UNCHANGED <<store, tableVersion, lockHolder, locals>>
  /\ UNCHANGED <<fnChanges, fnRegex, fnList, fnReturned, tables, search, lst, more>>

\* a variant of create that validates after the file is written
PostsCreateWritesFirst(name, content) ==
  /\ pc[WriteApi] = "idle"
  /\ Len(archive) < MaxVersion
  /\ LastIndex(archive, name) = 0
  /\ archive' = WriteFile(archive, name, [type |-> JSON_TYPE, body |-> content.body.v])
  /\ IF ~validatePostContent(content)
     THEN /\ api' = ApiCall("create", Undefined, content, TRUE)
          /\ UNCHANGED <<store, tableVersion, lockHolder, pc, locals>>
          /\ UNCHANGED <<fnChanges, fnRegex, fnList, fnReturned, tables, search, lst, more>>
     ELSE ApiCrawls("create", Undefined, content)

\* posts.create(archive, content); name is the path made from
\* generateTimeFilename()
PostsCreate(name, content) ==
  /\ pc[WriteApi] = "idle"
  /\ Len(archive) < MaxVersion
  /\ LastIndex(archive, name) = 0
  /\ IF ~validatePostContent(content)
     THEN ApiThrows("create", Undefined, content)
     ELSE /\ archive' = WriteFile(archive, name,
                                  [type |-> JSON_TYPE, body |-> content.body.v])
          /\ ApiCrawls("create", Undefined, content)

\* posts.edit(archive, pathname, content): validation, then readFile (which
\* throws for a pathname that names no file), then writeFile
PostsEdit(pathname, content) ==
  /\ pc[WriteApi] = "idle"
  /\ Len(archive) < MaxVersion
  /\ IF ~validatePostContent(content)
     THEN ApiThrows("edit", pathname, content)
     ELSE IF pathname.t # "string" \/ ~FileExists(archive, pathname.v)
     THEN ApiThrows("edit", pathname, content)
     ELSE /\ archive' = WriteFile(archive, pathname.v,
                                  [type |-> JSON_TYPE, body |-> content.body.v])
          /\ ApiCrawls("edit", pathname, content)

\* posts.delete(archive, pathname): the assert, then unlink (which throws for
\* a pathname that names no file)
PostsDelete(pathname) ==
  /\ pc[WriteApi] = "idle"
  /\ Len(archive) < MaxVersion
  /\ IF pathname.t # "string"
     THEN ApiThrows("delete", pathname, [body |-> Undefined])
     ELSE IF ~FileExists(archive, pathname.v)
     THEN ApiThrows("delete", pathname, [body |-> Undefined])
     ELSE /\ archive' = Unlink(archive, pathname.v)
          /\ ApiCrawls("delete", pathname, [body |-> Undefined])

\* the contents and pathnames the write API is called with
Contents == {[body |-> JsString("p")], [body |-> JsString("q")],
             [body |-> JsNumber("5")], [body |-> Undefined]}

Pathnames == {JsString(FeedA), JsString(FeedB), JsNumber("5"), Undefined}

\* the write API and the crawl each accepted call goes on to
WriteNext ==
  \/ \E name \in JSON_PATH_REGEX, content \in Contents : PostsCreate(name, content)
  \/ \E pathname \in Pathnames, content \in Contents : PostsEdit(pathname, content)
  \/ \E pathname \in Pathnames : PostsDelete(pathname)
  \/ Acquire(WriteApi)
  \/ ReadState(WriteApi)
  \/ GetVersion(WriteApi)
  \/ FetchChanges(WriteApi)
  \/ HandlerNoReset(WriteApi)
  \/ LoopDone(WriteApi)
  \/ ApplyDel(WriteApi)
  \/ ReadValid(WriteApi)
  \/ ReadFails(WriteApi)
  \/ GetExisting(WriteApi)
  \/ Upsert(WriteApi)
  \/ CkDelete(WriteApi)
  \/ CkInsert(WriteApi)
  \/ Finish(WriteApi)

WriteSpec == Init /\ [][WriteNext]_vars

\* ------------------------------------------- crawler/search: the call
\* every variable but search
notSearch == <<archive, store, tableVersion, lockHolder, pc, locals,
               fnChanges, fnRegex, fnList, fnReturned, api, tables, lst, more>>

\* the nonce and the highlight markers, the defaults and the clamp, the
\* search terms; then the user's crawl_source id is asked for
SearchStart(c) ==
  /\ search[c].pc = "start"
  /\ \E highlightNonce \in 0..(NonceRange - 1) :
       LET opts == search[c].opts
       IN search' = [search EXCEPT ![c] =
            [@ EXCEPT !.pc = "user",
                      !.highlightNonce = highlightNonce,
                      !.startHighlight = StartHighlight(highlightNonce),
                      !.endHighlight = EndHighlight(highlightNonce),
                      !.user = opts.user,
                      !.query = PrepQuery(opts.query),
                      !.hops = ClampHops(opts.hops),
                      !.since = OrDefault(opts.since, 0),
                      !.offset = 0,
                      !.limit = OrDefault(opts.limit, 20)]]
  /\ UNCHANGED notSearch

\* get user's crawl_source id
GetUser(c) ==
  /\ search[c].pc = "user"
  /\ search' = [search EXCEPT ![c] =
       [@ EXCEPT !.pc = "scope", !.userCrawlSourceId = SourceId(search[c].user)]]
  /\ UNCHANGED notSearch

\* construct set of crawl sources to query
GetScope(c) ==
  /\ search[c].pc = "scope"
  /\ search' = [search EXCEPT ![c] =
       [@ EXCEPT !.pc = "followgraph",
                 !.crawlSourceIds =
                    ScopeIds(search[c].hops, tables.crawl_followgraph,
                             search[c].userCrawlSourceId)]]
  /\ UNCHANGED notSearch

\* the query is built with crawlSourceIds undefined and the query builder
\* rejects the undefined binding: the call rejects
QueryThrows(c) ==
  /\ search[c].pc = "followgraph"
  /\ ~search[c].crawlSourceIds.defined
  /\ search' = [search EXCEPT ![c] =
       [@ EXCEPT !.pc = "threw", !.opts = NoOpts]]
  /\ UNCHANGED notSearch

\* FOLLOWGRAPH: query, remove duplicates, massage, concat
QueryFollowgraph(c) ==
  /\ search[c].pc = "followgraph"
  /\ LET s == search[c]
         matched == FollowGraphRows(tables, s.query, s.crawlSourceIds, s.user,
                                    s.userCrawlSourceId, s.since,
                                    s.startHighlight, s.endHighlight)
     IN \E ordered \in OrderBy(matched) :
          LET rows == LimitOffset(ordered, s.limit, s.offset)
          IN search' = [search EXCEPT ![c] =
               [s EXCEPT !.pc = "link_posts",
                         !.opts = NoOpts,
                         !.fgRows = rows,
                         !.used = @ \cup {<<"followgraph", s.startHighlight,
                                            s.endHighlight>>},
                         !.results = @ \o UserResults(uniqWith(rows))]]
  /\ UNCHANGED notSearch

\* LINK_POSTS: query, resolve the author, reshape, concat
QueryLinkPosts(c) ==
  /\ search[c].pc = "link_posts"
  /\ LET s == search[c]
         matched == LinkPostsRows(tables, s.query, s.crawlSourceIds,
                                  s.userCrawlSourceId, s.since,
                                  s.startHighlight, s.endHighlight)
     IN \E ordered \in OrderBy(matched) :
          LET rows == LimitOffset(ordered, s.limit, s.offset)
          IN search' = [search EXCEPT ![c] =
               [s EXCEPT !.pc = "published_sites",
                         !.used = @ \cup {<<"link_posts", s.startHighlight,
                                            s.endHighlight>>},
                         !.results = @ \o PostResults(rows)]]
  /\ UNCHANGED notSearch

\* PUBLISHED_SITES: query, remove duplicates, fetch full records, concat
QueryPublishedSites(c) ==
  /\ search[c].pc = "published_sites"
  /\ LET s == search[c]
         matched == PublishedSitesRows(tables, s.query, s.crawlSourceIds,
                                       s.userCrawlSourceId, s.since,
                                       s.startHighlight, s.endHighlight)
     IN \E ordered \in OrderBy(matched) :
          LET rows == LimitOffset(ordered, s.limit, s.offset)
          IN search' = [search EXCEPT ![c] =
               [s EXCEPT !.pc = "sort",
                         !.psRows = rows,
                         !.used = @ \cup {<<"published_sites", s.startHighlight,
                                            s.endHighlight>>},
                         !.results = @ \o SiteResults(uniqWith(rows),
                                                      tables.crawl_site_descriptions)]]
  /\ UNCHANGED notSearch

\* sort and apply limit again, return searchResults
SortAndReturn(c) ==
  /\ search[c].pc = "sort"
  /\ search' = [search EXCEPT ![c] =
       [@ EXCEPT !.pc = "returned",
                 !.results = Slice(SortByCrawledAt(@), search[c].limit)]]
  /\ UNCHANGED notSearch

SearchNext ==
  \/ \E c \in Callers : SearchStart(c)
  \/ \E c \in Callers : GetUser(c)
  \/ \E c \in Callers : GetScope(c)
  \/ \E c \in Callers : QueryThrows(c)
  \/ \E c \in Callers : QueryFollowgraph(c)
  \/ \E c \in Callers : QueryLinkPosts(c)
  \/ \E c \in Callers : QueryPublishedSites(c)
  \/ \E c \in Callers : SortAndReturn(c)

\* the options listSearchResults is called with
HopsOptions == {NoNumber, Whole(0), Whole(1), Whole(2), Halves(5), Whole(3)}
QueryOptions == {NoQuery, "Foo"}
SinceOptions == {NoNumber, Whole(2)}
LimitOptions == {NoNumber, Whole(1)}

\* one call by the user, on any index made of the pool rows
SearchInit ==
  /\ CrawlInit
  /\ NoCall
  /\ api = NoApi
  /\ MoreInit
  /\ lst = NoList
  /\ \E fs \in SUBSET FollowPool, ds \in SUBSET DescriptionPool,
        ps \in SUBSET LinkPostPool, ss \in SUBSET PublishedSitePool :
       tables = [crawl_followgraph |-> TableOf(fs),
                 crawl_site_descriptions |-> TableOf(ds),
                 crawl_link_posts |-> TableOf(ps),
                 crawl_published_sites |-> TableOf(ss)]
  /\ \E query \in QueryOptions, hops \in HopsOptions, since \in SinceOptions,
        limit \in LimitOptions :
       search = [c \in Callers |->
                   IF c = 1 THEN Pending(Opts(UserUrl, query, hops, since, limit))
                   ELSE NoSearch]

SearchSpec == SearchInit /\ [][SearchNext]_vars

\* two calls made at the same time, on the index holding every pool row
ConcurrentInit ==
  /\ CrawlInit
  /\ NoCall
  /\ api = NoApi
  /\ MoreInit
  /\ lst = NoList
  /\ tables = [crawl_followgraph |-> TableOf(FollowPool),
               crawl_site_descriptions |-> TableOf(DescriptionPool),
               crawl_link_posts |-> TableOf(LinkPostPool),
               crawl_published_sites |-> TableOf(PublishedSitePool)]
  /\ \E hops \in [Callers -> {NoNumber, Whole(1), Whole(2)}] :
       search = [c \in Callers |->
                   Pending(Opts(UserUrl, "Foo", hops[c], NoNumber, NoNumber))]

ConcurrentSearchSpec == ConcurrentInit /\ [][SearchNext]_vars

\* ------------------------------------------------ crawler/posts: list
\* a variant of the asserts that lets every value through
AssertPassesAlways(x, type) == TRUE

\* assert(!x || typeof x === type)
AssertPasses(x, type) == ~Truthy(x) \/ x.t = type

\* assert(!authors || (Array.isArray(authors) && authors.every(isString)))
AssertAuthorsPasses(authors) ==
  \/ ~TruthyArg(authors)
  \/ /\ authors.t = "array"
     /\ \A i \in 1..Len(authors.elems) : authors.elems[i].t = "string"

\* if (author) { authors = authors || []; authors.push(author) }
WithAuthor(author, authors) ==
  IF Truthy(author)
  THEN Arr((IF TruthyArg(authors) THEN authors.elems ELSE <<>>) \o <<author>>)
  ELSE authors

\* the URLs of the authors used here that parse
AuthorA == "dat://source/data/feed/a.json"
AuthorB == "dat://other"
NotAUrl == "not a url"
Parses(v) == v \in {AuthorA, AuthorB}

\* toOrigin(url): the origin of a URL that parses
toOrigin(v) ==
  IF v = AuthorA THEN SourceUrl ELSE [protocol |-> "dat:", hostname |-> "other"]

\* authors.map(toOrigin) throws
MapThrows(authors) ==
  TruthyArg(authors) /\ \E i \in 1..Len(authors.elems) : ~Parses(authors.elems[i].v)

\* SELECT crawl_posts.* ... [WHERE src.url = ? OR ...] ORDER BY createdAt [DESC]
\* [LIMIT ?] [OFFSET ?]: every stored row belongs to the source CrawlSourceUrl
ListQuery(rows, offset, limit, reverse, authors) ==
  LET origins == {toOrigin(authors.elems[i].v) : i \in 1..Len(authors.elems)}
      where == IF TruthyArg(authors) /\ Len(authors.elems) > 0
               THEN SelectSeq(rows, LAMBDA r : CrawlSourceUrl \in origins)
               ELSE rows
      ordered == IF Truthy(reverse)
                 THEN [k \in 1..Len(where) |-> where[Len(where) + 1 - k]]
                 ELSE where
      limited == IF Truthy(limit) /\ Len(ordered) > 1
                 THEN SubSeq(ordered, 1, 1) ELSE ordered
  IN IF Truthy(offset) THEN SubSeq(limited, 2, Len(limited)) ELSE limited

\* the record of a posts.list call
ListCall(offset, limit, reverse, author, authors, threw, queried, rows) ==
  [called |-> TRUE, offset |-> offset, limit |-> limit, reverse |-> reverse,
   author |-> author, authors |-> authors, threw |-> threw,
   queried |-> queried, rows |-> rows]

\* posts.list({offset, limit, reverse, author, authors})
PostsList(offset, limit, reverse, author, authors) ==
  /\ IF ~(/\ AssertPasses(offset, "number")
          /\ AssertPasses(limit, "number")
          /\ AssertPasses(reverse, "boolean")
          /\ AssertPasses(author, "string")
          /\ AssertAuthorsPasses(authors))
     THEN lst' = ListCall(offset, limit, reverse, author, authors, TRUE, FALSE, <<>>)
     ELSE IF MapThrows(WithAuthor(author, authors))
     THEN lst' = ListCall(offset, limit, reverse, author, authors, TRUE, FALSE, <<>>)
     ELSE lst' = ListCall(offset, limit, reverse, author, authors, FALSE, TRUE,
                          ListQuery(posts, offset, limit, reverse,
                                    WithAuthor(author, authors)))
  /\ UNCHANGED <<archive, store, tableVersion, lockHolder, pc, locals>>
  /\ UNCHANGED <<fnChanges, fnRegex, fnList, fnReturned, api, tables, search, more>>

\* the arguments posts.list is called with
OffsetOptions == {Undefined, JsNumber("0"), JsNumber("1"), JsString(""), JsString("1")}
ListLimitOptions == {Undefined, JsNumber("1"), JsString("1")}
ReverseOptions == {Undefined, JsBoolean("true"), JsNumber("0"), JsString("yes")}
AuthorOptions == {Undefined, JsString(AuthorA), JsString(NotAUrl), JsNumber("0"),
                  JsNumber("5")}
AuthorsOptions == {NoArray, Arr(<<>>), Arr(<<JsString(AuthorA)>>),
                   Arr(<<JsString(AuthorB), JsNumber("5")>>),
                   Arr(<<JsString(AuthorB)>>),
                   Arr(<<JsString(NotAUrl)>>), NotArray(AuthorA), NotArray("")}

\* a call of posts.list that has not run yet
Requested(offset, limit, reverse, author, authors) ==
  [NoList EXCEPT !.offset = offset, !.limit = limit, !.reverse = reverse,
                 !.author = author, !.authors = authors]

\* the requested call runs
ListNext ==
  /\ ~lst.called
  /\ PostsList(lst.offset, lst.limit, lst.reverse, lst.author, lst.authors)

\* crawl_posts holds the rows of two crawled posts, or none, and a call of
\* posts.list is requested with each combination of the arguments
ListInit ==
  /\ archive = <<>>
  /\ meta = <<>>
  /\ posts \in {<<>>, <<[pathname |-> FeedA, body |-> "p"],
                        [pathname |-> FeedB, body |-> "q"]>>}
  /\ tableVersion = TABLE_VERSION
  /\ lockHolder = NoHolder
  /\ pc = [p \in Procs |-> "idle"]
  /\ resetRequired = [p \in Procs |-> FALSE]
  /\ state = [p \in Procs |-> 0]
  /\ found = [p \in Procs |-> FALSE]
  /\ version = [p \in Procs |-> 0]
  /\ changes = [p \in Procs |-> <<>>]
  /\ changedPosts = [p \in Procs |-> <<>>]
  /\ idx = [p \in Procs |-> 0]
  /\ progress = [p \in Procs |-> 0]
  /\ post = [p \in Procs |-> NoFile]
  /\ existingPost = [p \in Procs |-> NoPost]
  /\ ckVersion = [p \in Procs |-> 0]
  /\ ckRet = [p \in Procs |-> ""]
  /\ skipped = [p \in Procs |-> {}]
  /\ abortedAt = [p \in Procs |-> 0]
  /\ emitted = [p \in Procs |-> <<>>]
  /\ postEvents = [p \in Procs |-> <<>>]
  /\ NoCall
  /\ api = NoApi
  /\ MoreInit
  /\ tables = NoTables
  /\ search = [c \in Callers |-> NoSearch]
  /\ \E offset \in OffsetOptions, limit \in ListLimitOptions,
        reverse \in ReverseOptions, author \in AuthorOptions,
        authors \in AuthorsOptions :
       lst = Requested(offset, limit, reverse, author, authors)

ListSpec == ListInit /\ [][ListNext]_vars

\* ------------------------------------- crawler/util: generateTimeFilename
MaxClock == 3
MaxFilenames == 5

\* (new Date(d)).toISOString(): the date and time with its seconds and
\* milliseconds, 1970-01-01T00:00:ss.mmmZ for the small d used here
toISOString(d) ==
  [date |-> "1970-01-01T00:00", seconds |-> d \div 1000, ms |-> d % 1000]

\* d after `if (d === _lastGeneratedTimeFilename) { d++ }`
Bump(d, last) == IF last = {d} THEN d + 1 ELSE d

\* generateTimeFilename()
generateTimeFilename ==
  /\ Len(filenames) < MaxFilenames
  /\ LET d == Bump(clock, lastGeneratedTimeFilename)
     IN /\ lastGeneratedTimeFilename' = {d}
        /\ filenames' = Append(filenames, toISOString(d))
  /\ UNCHANGED clock
  /\ UNCHANGED notFilename

\* a millisecond passes
Tick ==
  /\ clock < MaxClock
  /\ clock' = clock + 1
  /\ UNCHANGED <<lastGeneratedTimeFilename, filenames>>
  /\ UNCHANGED notFilename

FilenameNext == generateTimeFilename \/ Tick

FilenameSpec == Init /\ [][FilenameNext]_vars

\* ------------------------------------------------------------ dat/library
\* a variant that never finds the cached promise
NeverCached(promises, key) == FALSE

\* keyStr in archiveLoadPromises
Cached(promises, key) == promises[key] # 0

\* the load is running: its promise is pending
Loading(l) == loads[l].pc \in {"settings", "daemon", "meta"}

\* the next load that was not started, 0 when all were
FreeLoad ==
  IF \E l \in 1..MaxLoads : loads[l].pc = "unused"
  THEN CHOOSE l \in 1..MaxLoads :
         loads[l].pc = "unused" /\ \A m \in 1..(l - 1) : loads[m].pc # "unused"
  ELSE 0

\* the body of loadArchive(key, userSettings) for a key that is a dat hash:
\* the cached promise is returned, or loadArchiveInner is started (up to its
\* first await) and its promise cached
LoadArchiveBody(key, userSettings, by) ==
  IF Cached(archiveLoadPromises, key)
  THEN /\ lastCall' = [key |-> key, load |-> archiveLoadPromises[key], threw |-> FALSE]
       /\ UNCHANGED <<archiveLoadPromises, loads>>
  ELSE /\ FreeLoad # 0
       /\ loads' = [loads EXCEPT ![FreeLoad] =
            [key |-> key, pc |-> IF userSettings THEN "daemon" ELSE "settings",
             by |-> by, startedAt |-> IF by = "saved" THEN now ELSE 0]]
       /\ archiveLoadPromises' = [archiveLoadPromises EXCEPT ![key] = FreeLoad]
       /\ lastCall' = [key |-> key, load |-> FreeLoad, threw |-> FALSE]

\* loadArchive(key, userSettings), called from outside the module
LoadArchive(key, userSettings) ==
  /\ IF key \notin Keys
     THEN /\ lastCall' = [key |-> key, load |-> 0, threw |-> TRUE]
          /\ UNCHANGED <<archiveLoadPromises, loads, unloaded>>
     ELSE /\ LoadArchiveBody(key, userSettings, "call")
          /\ unloaded' = [unloaded EXCEPT ![key] = FALSE]
  /\ UNCHANGED <<archives, unloading, saved, now>>
  /\ UNCHANGED notLibrary

\* getOrLoadArchive(key): the archive in memory, or loadArchive(key)
GetOrLoadArchive(key) ==
  /\ unloaded' = [unloaded EXCEPT ![key] = FALSE]
  /\ IF key \in archives
     THEN UNCHANGED <<archiveLoadPromises, loads, lastCall>>
     ELSE LoadArchiveBody(key, FALSE, "call")
  /\ UNCHANGED <<archives, unloading, saved, now>>
  /\ UNCHANGED notLibrary

\* loadArchiveInner: archivesDb.getUserSettings resolves or rejects (caught)
GotUserSettings(l) ==
  /\ loads[l].pc = "settings"
  /\ loads' = [loads EXCEPT ![l].pc = "daemon"]
  /\ UNCHANGED <<archives, archiveLoadPromises, lastCall, unloading, unloaded, saved, now>>
  /\ UNCHANGED notLibrary

\* loadArchiveInner: daemon.loadArchive resolves
DaemonLoaded(l) ==
  /\ loads[l].pc = "daemon"
  /\ loads' = [loads EXCEPT ![l].pc = "meta"]
  /\ UNCHANGED <<archives, archiveLoadPromises, lastCall, unloading, unloaded, saved, now>>
  /\ UNCHANGED notLibrary

\* the entry of the settled load is removed: delete archiveLoadPromises[keyStr]
Clear(promises, key) == [promises EXCEPT ![key] = 0]

\* loadArchiveInner: pullLatestArchiveMeta resolves, the archive is stored in
\* the archives listing and the promise resolves
MetaPulled(l) ==
  /\ loads[l].pc = "meta"
  /\ loads' = [loads EXCEPT ![l].pc = "loaded"]
  /\ archives' = archives \cup {loads[l].key}
  /\ archiveLoadPromises' = Clear(archiveLoadPromises, loads[l].key)
  /\ UNCHANGED <<lastCall, unloading, unloaded, saved, now>>
  /\ UNCHANGED notLibrary

\* daemon.loadArchive or pullLatestArchiveMeta rejects: the promise rejects
LoadFails(l) ==
  /\ loads[l].pc \in {"daemon", "meta"}
  /\ loads' = [loads EXCEPT ![l].pc = "failed"]
  /\ archiveLoadPromises' = Clear(archiveLoadPromises, loads[l].key)
  /\ UNCHANGED <<archives, lastCall, unloading, unloaded, saved, now>>
  /\ UNCHANGED notLibrary

\* unloadArchive(key), up to `await daemon.unloadArchive(key)`
UnloadArchive(key) ==
  /\ key \notin unloading
  /\ IF key \notin archives
     THEN /\ unloaded' = [unloaded EXCEPT ![key] = TRUE]
          /\ UNCHANGED <<archives, unloading>>
     ELSE /\ archives' = archives \ {key}
          /\ unloading' = unloading \cup {key}
          /\ UNCHANGED unloaded
  /\ UNCHANGED <<archiveLoadPromises, loads, lastCall, saved, now>>
  /\ UNCHANGED notLibrary

\* daemon.unloadArchive resolves: unloadArchive resolves
DaemonUnloaded(key) ==
  /\ key \in unloading
  /\ unloading' = unloading \ {key}
  /\ unloaded' = [unloaded EXCEPT ![key] = TRUE]
  /\ UNCHANGED <<archives, archiveLoadPromises, loads, lastCall, saved, now>>
  /\ UNCHANGED notLibrary

\* daemon.unloadArchive rejects: unloadArchive rejects
UnloadFails(key) ==
  /\ key \in unloading
  /\ unloading' = unloading \ {key}
  /\ UNCHANGED <<archives, archiveLoadPromises, loads, lastCall, unloaded, saved, now>>
  /\ UNCHANGED notLibrary

\* a variant of the timer that fires at once
TimerFiredAtOnce(timer, t) == TRUE

\* the timer of setTimeout(r, 5e3) set at `timer` has fired at time t
TimerFired(timer, t) == t - timer >= WaitPeriod

\* loadSavedArchives(): archivesDb.query resolves with the saved archives
SavedQueried ==
  /\ saved.pc = "idle"
  /\ saved' = [pc |-> "loop", i |-> 1, timer |-> 0]
  /\ UNCHANGED <<archives, archiveLoadPromises, loads, lastCall, unloading, unloaded, now>>
  /\ UNCHANGED notLibrary

\* archivesDb.query rejects: the error is logged
SavedQueryFails ==
  /\ saved.pc = "idle"
  /\ saved' = [pc |-> "done", i |-> 0, timer |-> 0]
  /\ UNCHANGED <<archives, archiveLoadPromises, loads, lastCall, unloading, unloaded, now>>
  /\ UNCHANGED notLibrary

\* for (let a of archives): loadArchive(a.key, a.userSettings) without await,
\* then the 5 s timer is set; past the last archive the function returns
SavedLoad ==
  /\ saved.pc = "loop"
  /\ IF saved.i > Len(SavedArchives)
     THEN /\ saved' = [saved EXCEPT !.pc = "done"]
          /\ UNCHANGED <<archiveLoadPromises, loads, lastCall, unloaded>>
     ELSE /\ LoadArchiveBody(SavedArchives[saved.i], TRUE, "saved")
          /\ unloaded' = [unloaded EXCEPT ![SavedArchives[saved.i]] = FALSE]
          /\ saved' = [saved EXCEPT !.pc = "wait", !.timer = now]
  /\ UNCHANGED <<archives, unloading, now>>
  /\ UNCHANGED notLibrary

\* the timer fires: the loop goes on to the next archive
SavedWake ==
  /\ saved.pc = "wait"
  /\ TimerFired(saved.timer, now)
  /\ saved' = [saved EXCEPT !.pc = "loop", !.i = @ + 1]
  /\ UNCHANGED <<archives, archiveLoadPromises, loads, lastCall, unloading, unloaded, now>>
  /\ UNCHANGED notLibrary

\* time passes
Pass ==
  /\ now < MaxTime
  /\ now' = now + 1
  /\ UNCHANGED <<archives, archiveLoadPromises, loads, lastCall, unloading, unloaded, saved>>
  /\ UNCHANGED notLibrary

\* the steps of the running loads
LoadNext ==
  \E l \in 1..MaxLoads :
    GotUserSettings(l) \/ DaemonLoaded(l) \/ MetaPulled(l) \/ LoadFails(l)

LibraryNext ==
  \/ \E key \in Keys \cup {BadKey}, userSettings \in BOOLEAN :
       LoadArchive(key, userSettings)
  \/ \E key \in Keys : GetOrLoadArchive(key)
  \/ LoadNext
  \/ \E key \in Keys : UnloadArchive(key) \/ DaemonUnloaded(key) \/ UnloadFails(key)

\* loadSavedArchives runs while archives are loaded on access
SavedNext ==
  \/ SavedQueried
  \/ SavedQueryFails
  \/ SavedLoad
  \/ SavedWake
  \/ Pass
  \/ LoadNext
  \/ \E key \in Keys : GetOrLoadArchive(key)

SavedSpec == Init /\ [][SavedNext]_vars

LibrarySpec == Init /\ [][LibraryNext]_vars

\* ---------------------------------------------------------- dbs/bookmarks
\* assert(v && typeof v === 'string'): assertValidHref, assertValidTitle
ValidString(v) == Truthy(v) /\ v.t = "string"

\* normalizeUrl(href, NORMALIZE_OPTS): scheme and host in lower case
normalizeUrl(v) ==
  IF v = JsString("HTTP://B") THEN JsString("http://b") ELSE v

\* a row of the bookmarks table
BookmarkRow(url, title, pinOrder) ==
  [url |-> url, title |-> title, pinOrder |-> pinOrder]

\* INSERT OR REPLACE INTO bookmarks (profileId, url, title, tags, pinned):
\* (profileId, url) is the key; pinOrder takes its default
InsertOrReplace(table, url, title) ==
  {r \in table : r.url # url} \cup {BookmarkRow(url, title, 0)}

\* knex('bookmarks').where({profileId, url}).update('url', href)
\* .update('title', title), each only for a value that is not undefined
UpdateBookmark(table, url, href, title) ==
  LET updated(r) ==
        BookmarkRow(IF href.t # "undefined" THEN href ELSE r.url,
                    IF title.t # "undefined" THEN title ELSE r.title,
                    r.pinOrder)
  IN {r \in table : r.url # url /\ (href.t = "undefined" \/ r.url # href)}
       \cup {updated(r) : r \in {q \in table : q.url = url}}

\* DELETE FROM bookmarks WHERE profileId = ? AND url = ?
DeleteBookmark(table, url) == {r \in table : r.url # url}

\* UPDATE bookmarks SET pinOrder = len - i for the one url of urls
SetPinOrder(table, url) ==
  {IF r.url = url THEN BookmarkRow(r.url, r.title, 1) ELSE r : r \in table}

\* a variant of release that keeps the lock
KeepLock(m) == UNCHANGED bookmarksLock

\* release()
Release(m) == bookmarksLock' = 0

\* the mutation of caller m was rejected by a failed assert: nothing was
\* read or written
Throws(m, op) ==
  /\ bm' = [bm EXCEPT ![m] = NoMutation]
  /\ UNCHANGED <<bookmarks, bookmarksLock>>

\* the mutation of caller m is validated and asks for the lock
AsksLock(m, op, target, href, title) ==
  /\ bm' = [bm EXCEPT ![m] =
       [pc |-> "lock", op |-> op, target |-> target, href |-> href,
        title |-> title, found |-> FALSE]]
  /\ UNCHANGED <<bookmarks, bookmarksLock>>

\* addBookmark(profileId, {href, title}), up to `await lock('bookmarksdb')`
AddBookmark(m, href, title) ==
  /\ bm[m].pc = "idle"
  /\ IF ValidString(href) /\ ValidString(title)
     THEN AsksLock(m, "add", Undefined, normalizeUrl(href), title)
     ELSE Throws(m, "add")
  /\ UNCHANGED notBookmarks

\* editBookmark(profileId, bookmarkHref, {href, title}), up to the lock
EditBookmark(m, bookmarkHref, href, title) ==
  /\ bm[m].pc = "idle"
  /\ IF /\ ValidString(bookmarkHref)
        /\ Truthy(href) => ValidString(href)
        /\ Truthy(title) => ValidString(title)
     THEN AsksLock(m, "edit", normalizeUrl(bookmarkHref),
                   IF Truthy(href) THEN normalizeUrl(href) ELSE Undefined, title)
     ELSE Throws(m, "edit")
  /\ UNCHANGED notBookmarks

\* removeBookmark(profileId, href), up to the lock
RemoveBookmark(m, href) ==
  /\ bm[m].pc = "idle"
  /\ AsksLock(m, "remove", normalizeUrl(href), Undefined, Undefined)
  /\ UNCHANGED notBookmarks

\* setBookmarkPinOrder(profileId, [url]), up to the lock
SetBookmarkPinOrder(m, url) ==
  /\ bm[m].pc = "idle"
  /\ AsksLock(m, "pin", url, Undefined, Undefined)
  /\ UNCHANGED notBookmarks

\* the lock is free
BookmarksLockFree == bookmarksLock = 0

\* lock('bookmarksdb') resolves for caller m
LockBookmarks(m) ==
  /\ bm[m].pc = "lock"
  /\ BookmarksLockFree
  /\ bookmarksLock' = m
  /\ bm' = [bm EXCEPT ![m].pc = IF bm[m].op = "edit" THEN "get" ELSE "run"]
  /\ UNCHANGED bookmarks
  /\ UNCHANGED notBookmarks

\* editBookmark: db.get of the old bookmark resolves
GetOldBookmark(m) ==
  /\ bm[m].pc = "get"
  /\ bm' = [bm EXCEPT ![m].pc = "run",
                      ![m].found = \E r \in bookmarks : r.url = bm[m].target]
  /\ UNCHANGED <<bookmarks, bookmarksLock>>
  /\ UNCHANGED notBookmarks

\* the statement of the mutation of caller m
Mutated(m) ==
  CASE bm[m].op = "add" -> InsertOrReplace(bookmarks, bm[m].href, bm[m].title)
    [] bm[m].op = "edit" ->
         IF bm[m].found
         THEN UpdateBookmark(bookmarks, bm[m].target, bm[m].href, bm[m].title)
         ELSE InsertOrReplace(bookmarks, bm[m].href, bm[m].title)
    [] bm[m].op = "remove" -> DeleteBookmark(bookmarks, bm[m].target)
    [] OTHER -> SetPinOrder(bookmarks, bm[m].target)

\* db.run resolves; finally release()
RunBookmarks(m) ==
  /\ bm[m].pc = "run"
  /\ bookmarks' = Mutated(m)
  /\ bm' = [bm EXCEPT ![m] = NoMutation]
  /\ Release(m)
  /\ UNCHANGED notBookmarks

\* db.get or db.run rejects; finally release()
BookmarksDbFails(m) ==
  /\ bm[m].pc \in {"get", "run"}
  /\ bm' = [bm EXCEPT ![m] = NoMutation]
  /\ Release(m)
  /\ UNCHANGED bookmarks
  /\ UNCHANGED notBookmarks

\* the arguments of the bookmark mutations
BookmarkHrefs == {Undefined, JsString("http://a"), JsString("HTTP://B")}
NewHrefs == {Undefined, JsString("http://a")}
BookmarkTitles == {Undefined, JsString(""), JsString("T")}

BookmarksNext ==
  \E m \in Mutators :
    \/ \E href \in BookmarkHrefs, title \in BookmarkTitles : AddBookmark(m, href, title)
    \/ \E bookmarkHref \in BookmarkHrefs, href \in NewHrefs,
          title \in BookmarkTitles : EditBookmark(m, bookmarkHref, href, title)
    \/ \E href \in BookmarkHrefs \ {Undefined} : RemoveBookmark(m, href)
    \/ \E href \in BookmarkHrefs \ {Undefined} : SetBookmarkPinOrder(m, normalizeUrl(href))
    \/ LockBookmarks(m)
    \/ GetOldBookmark(m)
    \/ RunBookmarks(m)
    \/ BookmarksDbFails(m)

BookmarksSpec == Init /\ [][BookmarksNext]_vars

\* ---------------------------------------------------------- dat/watchlist
\* the watch calls that were not made yet, lowest first
FreeWatches == {w \in 1..MaxWatches : watches[w].pc = "unused"}

\* the n-th lowest element of a set of numbers
Nth(S, n) == CHOOSE x \in S : Cardinality({y \in S : y < x}) = n - 1

\* watch(site) for each of the site records of `sites` in turn, each up to
\* its `await datLibrary.loadArchive(site.url)`
StartWatches(sites) ==
  [w \in 1..MaxWatches |->
     IF \E n \in 1..Len(sites) : w = Nth(FreeWatches, n)
     THEN LET n == CHOOSE i \in 1..Len(sites) : w = Nth(FreeWatches, i)
          IN [url |-> sites[n].url, resolved |-> sites[n].resolved, pc |-> "load"]
     ELSE watches[w]]

\* watchlistDb.getSites(0): the rows of the table as a list
GetSites(table) ==
  CHOOSE sites \in [1..Cardinality(table) -> table] :
    \A i, j \in 1..Cardinality(table) : sites[i] = sites[j] => i = j

\* setup(): getSites resolves and every site is watched
Setup ==
  /\ Cardinality(watchlist) <= Cardinality(FreeWatches)
  /\ watches' = StartWatches(GetSites(watchlist))
  /\ UNCHANGED <<watchlist, resolvedEvents, loadedSites>>
  /\ UNCHANGED notWatchlist

\* site.resolved === 0
Unresolved(site) == site.resolved = 0

\* addSite(profileId, url, opts): the parameters are validated, the row is
\* added to the table and the site is watched; the url is not watched yet
AddSite(url, description, seedWhenResolved) ==
  /\ \A r \in watchlist : r.url # url.v
  /\ IF ~(ValidString(url) /\ ValidString(description)
          /\ seedWhenResolved.t = "boolean")
     THEN UNCHANGED watches /\ UNCHANGED watchlist
     ELSE /\ FreeWatches # {}
          /\ watchlist' = watchlist \cup {[url |-> url.v, resolved |-> 0]}
          /\ watches' = StartWatches(<<[url |-> url.v, resolved |-> 0]>>)
  /\ UNCHANGED <<resolvedEvents, loadedSites>>
  /\ UNCHANGED notWatchlist

\* watch: loadArchive resolves; 'resolved' is emitted for a site record whose
\* resolved is 0; the download is started; updateWatchlist is called
WatchLoaded(w) ==
  /\ watches[w].pc = "load"
  /\ loadedSites' = loadedSites \cup {watches[w].url}
  /\ resolvedEvents' = [resolvedEvents EXCEPT ![watches[w].url] =
       IF Unresolved(watches[w]) THEN @ + 1 ELSE @]
  /\ watches' = [watches EXCEPT ![w].pc = "update"]
  /\ UNCHANGED watchlist
  /\ UNCHANGED notWatchlist

\* watch: loadArchive rejects, watch rejects
WatchLoadFails(w) ==
  /\ watches[w].pc = "load"
  /\ watches' = [watches EXCEPT ![w].pc = "done"]
  /\ UNCHANGED <<watchlist, resolvedEvents, loadedSites>>
  /\ UNCHANGED notWatchlist

\* watchlistDb.updateWatchlist(0, site, {resolved: 1})
UpdateResolved(table, url) ==
  {IF r.url = url THEN [url |-> url, resolved |-> 1] ELSE r : r \in table}

\* watch: updateWatchlist resolves
WatchUpdated(w) ==
  /\ watches[w].pc = "update"
  /\ watchlist' = UpdateResolved(watchlist, watches[w].url)
  /\ watches' = [watches EXCEPT ![w].pc = "done"]
  /\ UNCHANGED <<resolvedEvents, loadedSites>>
  /\ UNCHANGED notWatchlist

\* watch: updateWatchlist throws 'Failed to update the watchlist'
WatchUpdateFails(w) ==
  /\ watches[w].pc = "update"
  /\ watches' = [watches EXCEPT ![w].pc = "done"]
  /\ UNCHANGED <<watchlist, resolvedEvents, loadedSites>>
  /\ UNCHANGED notWatchlist

WatchlistNext ==
  \/ Setup
  \/ \E url \in {JsString(u) : u \in Sites} \cup {Undefined},
        description \in {JsString("d"), Undefined},
        seedWhenResolved \in {JsBoolean("true"), Undefined} :
       AddSite(url, description, seedWhenResolved)
  \/ \E w \in 1..MaxWatches :
       WatchLoaded(w) \/ WatchLoadFails(w) \/ WatchUpdated(w) \/ WatchUpdateFails(w)

WatchlistSpec == Init /\ [][WatchlistNext]_vars

\* any change list and any pattern
MatchingInit ==
  /\ CrawlInit
  /\ \E cs \in ChangeLists :
       fnChanges = [k \in 1..Len(cs) |->
                     [name |-> cs[k][1], type |-> cs[k][2], version |-> k]]
  /\ fnRegex \in SUBSET Names
  /\ fnList = <<>>
  /\ fnReturned = FALSE
  /\ NoOtherCall

\* the call returns its list
CallMatching ==
  /\ ~fnReturned
  /\ fnList' = getMatchingChangesInOrder(fnChanges, fnRegex)
  /\ fnReturned' = TRUE
  /\ UNCHANGED <<archive, store, tableVersion, lockHolder, pc, locals,
                 fnChanges, fnRegex, others>>

MatchingNext == CallMatching

MatchingSpec == MatchingInit /\ [][MatchingNext]_vars

\* --------------------------------------------------------- properties
\* the stored checkpoint rows, as (epoch, version) records
Stored(epoch, v) == [crawlDatasetVersion |-> epoch, crawlSourceVersion |-> v]

\* invocation p has read the stored checkpoint and not yet written a row
JustRead(p) == pc[p] \in {"getVersion", "history", "handler"}

\* invocation p is between reading the stored checkpoint and the end of its
\* final checkpoint
Between(p) ==
  pc[p] \in {"getVersion", "history", "handler", "loop", "get", "upsert",
             "ckDelete", "ckInsert"}

\* C1 (as claimed): no doCheckpoint call replaces the stored crawlSourceVersion
\* by a smaller one, so the stored version never decreases.
C1_NeverDecreases ==
  \A p \in Procs :
    pc[p] = "ckDelete" =>
      \A i \in 1..Len(meta) : ckVersion[p] >= meta[i].crawlSourceVersion

\* C1 (amended): a doCheckpoint call never replaces a stored record of the
\* caller's epoch by one with a smaller crawlSourceVersion; the version goes
\* back (to 0) only when the record it replaces has another epoch.
C1_NeverDecreasesWithinEpoch ==
  \A p \in Procs :
    pc[p] = "ckDelete" =>
      \A i \in 1..Len(meta) :
        meta[i].crawlDatasetVersion = tableVersion =>
          ckVersion[p] >= meta[i].crawlSourceVersion

C1_Witness ==
  \E p \in Procs :
    /\ pc[p] = "ckDelete"
    /\ ckRet[p] = "next"
    /\ progress[p] >= 1
    /\ meta # <<>>
    /\ meta[1].crawlDatasetVersion = tableVersion
    /\ ckVersion[p] > meta[1].crawlSourceVersion

\* C2: after a failed post-file read the run ends with the stored checkpoint
\* below the version of the entry that could not be read (it is not beyond the
\* last applied entry, which precedes that entry).
C2_AbortKeepsCheckpoint ==
  \A p \in Procs :
    (pc[p] = "finish" /\ abortedAt[p] # 0) =>
      \A i \in 1..Len(meta) : meta[i].crawlSourceVersion < abortedAt[p]

\* C3 (as claimed): at the end of a run the stored crawlSourceVersion is below
\* the version of every entry skipped for a parse/validation failure.
C3_SkippedStaysInWindow ==
  \A p \in Procs :
    pc[p] = "finish" =>
      \A v \in skipped[p] :
        \A i \in 1..Len(meta) : meta[i].crawlSourceVersion < v

\* C3 (amended): at the end of a run the stored crawlSourceVersion is the
\* run's archive version, at or above the version of every skipped entry, so
\* the next run's window starts after the skipped entry.
C3_SkippedIsPassed ==
  \A p \in Procs :
    pc[p] = "finish" =>
      \A v \in skipped[p] :
        /\ meta # <<>>
        /\ \A i \in 1..Len(meta) : meta[i].crawlSourceVersion >= v
        /\ WindowStart(StateVersion(GetState(meta), tableVersion)) > v

C3_Witness ==
  \E p \in Procs :
    /\ pc[p] = "finish"
    /\ skipped[p] # {}
    /\ abortedAt[p] = 0

\* C4: the checkpoint record is replaced atomically: once the pair has exactly
\* one record, every later state (hence every crash point) has exactly one.
C4_AtomicReplace == [][Len(meta) = 1 => Len(meta') = 1]_vars

\* C5: no two crawlSite invocations of the pair are at the same time between
\* reading the stored checkpoint and writing their final checkpoint.
C5_Serialized ==
  \A p, q \in Procs : (p # q /\ Between(p)) => ~Between(q)

C5_Witness ==
  /\ Between(Scheduler)
  /\ pc[Scheduler] # "getVersion"
  /\ Len(archive) > version[Scheduler]
  /\ pc[WriteApi] = "waiting"

\* C6: on an epoch mismatch the handler gets resetRequired = true and a window
\* starting at 1, and until the first entry is applied the source has no
\* crawl_posts row and the checkpoint is (new epoch, 0).
C6_EpochBumpRebuilds ==
  \A p \in Procs :
    /\ (JustRead(p) /\ meta # <<>> /\ meta[1].crawlDatasetVersion # tableVersion)
         => (resetRequired[p] /\ WindowStart(state[p]) = 1)
    /\ (resetRequired[p] /\ pc[p] \in {"ckDelete", "ckInsert"} /\ ckRet[p] = "collect")
         => (posts = <<>> /\ ckVersion[p] = 0)
    /\ (resetRequired[p] /\ pc[p] \in {"loop", "get", "upsert"}
          /\ progress[p] = 0)
         => (posts = <<>> /\ meta = <<Stored(tableVersion, 0)>>)

C6_Witness ==
  \E p \in Procs :
    /\ resetRequired[p]
    /\ pc[p] = "upsert"
    /\ progress[p] = 0
    /\ tableVersion # TABLE_VERSION

\* C7 (as claimed): with no stored record the handler gets
\* resetRequired = true and the source version is taken as 0.
C7_AbsentMeansReset ==
  \A p \in Procs :
    (JustRead(p) /\ ~found[p]) => (resetRequired[p] /\ state[p] = 0)

\* C7 (amended): with no stored record the handler gets resetRequired = false
\* and the source version is taken as 0 (window start 1).
C7_AbsentNoReset ==
  \A p \in Procs :
    (Between(p) /\ ~found[p]) =>
      (~resetRequired[p] /\ state[p] = 0 /\ WindowStart(state[p]) = 1)

C7_Witness ==
  \E p \in Procs :
    /\ pc[p] = "handler"
    /\ ~found[p]
    /\ meta = <<>>
    /\ changes[p] # <<>>

\* C8: resetRequired is true exactly when a stored record exists and its
\* epoch differs from the caller's.
C8_ResetIffEpochMismatch ==
  \A p \in Procs :
    JustRead(p) =>
      (resetRequired[p] <=>
         (meta # <<>> /\ meta[1].crawlDatasetVersion # tableVersion))

C8_Witness ==
  \E p \in Procs :
    /\ pc[p] = "handler"
    /\ resetRequired[p]
    /\ meta # <<>>

\* C9: after a run in which every read succeeded and every file was valid,
\* each path of the window has the row of its latest event: none after a del,
\* exactly one row with that event's content after an add/change.
C9_RowsAreWindowState ==
  \A p \in Procs :
    (/\ pc[p] = "finish"
     /\ abortedAt[p] = 0
     /\ skipped[p] = {}
     /\ \A k \in 1..Len(changedPosts[p]) :
          changedPosts[p][k].type # "del" =>
            validatePost(archive[changedPosts[p][k].version].file))
    => \A k \in 1..Len(changedPosts[p]) :
         LET e == changedPosts[p][k]
             rows == {i \in 1..Len(posts) : posts[i].pathname = e.name}
         IN IF e.type = "del"
            THEN rows = {}
            ELSE /\ Cardinality(rows) = 1
                 /\ \A i \in rows : posts[i].body = archive[e.version].file.body

\* C10: when doCrawl resolves, the stored checkpoint is exactly
\* (caller's epoch, the archive version read at the start of the run).
C10_FinalCheckpoint ==
  \A p \in Procs :
    pc[p] = "finish" => meta = <<Stored(tableVersion, version[p])>>

C10_Witness ==
  \E p \in Procs :
    /\ pc[p] = "finish"
    /\ found[p]
    /\ changes[p] = <<>>
    /\ version[p] > 0

\* the change log of the versions storedSourceVersion + 1 .. version[p], where
\* storedSourceVersion is that of the stored record of the current epoch
ExactWindow(p) ==
  LET s == StateVersion(GetState(meta), tableVersion) + 1
      e == version[p] + 1
  IN /\ Len(changes[p]) = (IF e > s THEN e - s ELSE 0)
     /\ \A k \in 1..Len(changes[p]) :
          /\ changes[p][k].version = s + k - 1
          /\ changes[p][k].name = archive[s + k - 1].name
          /\ changes[p][k].type = archive[s + k - 1].type

\* C18: the change log doCrawl hands to the handler is exactly that of the
\* window [storedSourceVersion + 1, currentVersion + 1); the handler is
\* entered once per run, right after the fetch, also when the window is empty.
C18_WindowAndHandler ==
  [][\A p \in Procs :
       /\ pc'[p] = "handler" => ExactWindow(p)'
       /\ (pc[p] # "handler" /\ pc'[p] = "handler") => pc[p] = "history"
       /\ (pc[p] = "history" /\ pc'[p] # "idle") => pc'[p] \in {"history", "handler"}
       /\ (pc[p] = "handler" /\ pc'[p] # "handler") =>
            pc'[p] \in {"loop", "ckDelete", "idle"}]_vars

C18_Witness ==
  \E p \in Procs :
    /\ pc[p] = "handler"
    /\ WindowStart(state[p]) >= WindowEnd(version[p])
    /\ changes[p] = <<>>
    /\ version[p] > 0

\* invocation p runs with an archive version equal to the version of the
\* stored checkpoint it read, in the same epoch
Unchanged(p) ==
  /\ pc[p] \in {"history", "handler", "loop", "ckDelete", "ckInsert", "finish"}
  /\ found[p]
  /\ ~resetRequired[p]
  /\ state[p] = version[p]

\* C14: a run that finds the archive version equal to the stored checkpoint
\* of the same epoch gets an empty window and an empty change set, writes no
\* crawl_posts row, and ends with the checkpoint it found.
C14_NoOpRerun ==
  [][\A p \in Procs :
       Unchanged(p) =>
         /\ posts' = posts
         /\ pc'[p] = "handler" => changes'[p] = <<>>
         /\ pc'[p] = "loop" => changedPosts'[p] = <<>>
         /\ pc'[p] = "finish" => meta' = <<Stored(tableVersion, state[p])>>]_vars

C14_Witness ==
  \E p \in Procs :
    /\ pc[p] = "finish"
    /\ Unchanged(p)
    /\ posts # <<>>
    /\ meta = <<Stored(tableVersion, state[p])>>

\* the version of the last entry the loop of invocation p has applied
\* (row written and checkpoint call returned)
LastApplied(p) ==
  LET S == {k \in 1..(idx[p] - 1) : changedPosts[p][k].version \notin skipped[p]}
  IN changedPosts[p][CHOOSE k \in S : \A j \in S : j <= k].version

\* invocation p is inside the for-of loop, the checkpoint call of the entry
\* it is at included
InLoop(p) ==
  \/ pc[p] \in {"loop", "get", "upsert"}
  \/ pc[p] \in {"ckDelete", "ckInsert"} /\ ckRet[p] = "next"

\* C13: at every point of the loop after k >= 1 applied entries, the stored
\* checkpoint is the k-th applied entry's version, so that a crash there
\* resumes just past it.
C13_CheckpointPerEntry ==
  \A p \in Procs :
    (InLoop(p) /\ progress[p] >= 1) =>
      meta = <<Stored(tableVersion, LastApplied(p))>>

\* no run is pending and the stored checkpoint is the head of the archive in
\* the current epoch: every further doCrawl of the unchanged archive gets an
\* empty window
CaughtUp ==
  /\ \A p \in Procs : pc[p] = "idle"
  /\ meta = <<Stored(tableVersion, Len(archive))>>

\* the crawl_posts rows of `name` are the latest state of the file, when the
\* file is a valid post or is gone
Indexed(name) ==
  LET f == HeadFile(archive, name)
      rows == {i \in 1..Len(posts) : posts[i].pathname = name}
  IN /\ (f # NoFile /\ validatePost(f)) =>
          /\ Cardinality(rows) = 1
          /\ \A i \in rows : posts[i].body = f.body
     /\ f = NoFile => rows = {}

\* C11: retries leave no valid, readable file unindexed. Once the checkpoint
\* has caught up with the archive no retry reads anything any more, so by
\* then the rows must already be the latest state of every valid matching
\* file.
C11_CaughtUpMeansIndexed ==
  CaughtUp => \A name \in JSON_PATH_REGEX : Indexed(name)

\* the rows of a table without their order: how often each row occurs
RowCounts(rows) ==
  [r \in {rows[i] : i \in 1..Len(rows)} |->
     Cardinality({i \in 1..Len(rows) : rows[i] = r})]

\* the store a complete doCrawl run of the posts crawler ends with, when it
\* starts from (rows, metaRows) on the archive `log` and every read succeeds
CompleteRun(rows, metaRows, log, crawlDatasetVersion) ==
  LET row == GetState(metaRows)
      sv == StateVersion(row, crawlDatasetVersion)
      v == Len(log)
      list == getMatchingChangesInOrder(
                History(log, WindowStart(sv), WindowEnd(v)), JSON_PATH_REGEX)
      first == IF ResetNeeded(row, crawlDatasetVersion)
               THEN ResetRows(rows) ELSE rows
      f[n \in 0..Len(list)] ==
        IF n = 0 THEN first
        ELSE LET e == list[n]
                 file == HeadFile(log, e.name)
                 r == f[n - 1]
             IN IF e.type = "del" THEN DeleteRow(r, e.name)
                ELSE IF ~validatePost(file) THEN r
                ELSE IF get(SourceUrl, r, e.name) # NoPost
                THEN UpdateRow(r, e.name, file.body)
                ELSE InsertRow(r, e.name, file.body)
      last == f[Len(list)]
  IN [posts |-> RowCounts(last),
      meta |-> CheckpointInsert(CheckpointDelete(metaRows), crawlDatasetVersion,
                                FinalVersion(v, sv))]

\* C12: for a run on an archive that has not changed since the run read its
\* version: whatever store write the run is stopped after, a complete run
\* from the store it leaves ends with the same crawl_posts rows and checkpoint
\* as a complete run from the store before that write, hence as the
\* uninterrupted run.
C12_ReplaySafe ==
  [][\A p \in Procs :
       (lockHolder = p /\ Len(archive) = version[p] /\ store' # store) =>
         CompleteRun(posts', meta', archive', tableVersion')
           = CompleteRun(posts, meta, archive, tableVersion)]_vars

\* invocation p has not got the change log yet
BeforeFetch(p) == pc[p] \in {"readState", "getVersion", "history"}

\* C19: up to and including a failed fetch of the change log, a run writes
\* neither the checkpoint record nor a crawl_posts row, has not entered the
\* handler and has emitted no event; the failure ends the run there.
C19_FetchFailureMutatesNothing ==
  [][\A p \in Procs :
       BeforeFetch(p) =>
         /\ store' = store
         /\ emitted[p] = <<>>
         /\ changedPosts[p] = <<>> /\ idx[p] = 0
         /\ pc'[p] = "idle" => emitted'[p] = <<>>]_vars

C19_Witness ==
  \E p \in Procs :
    /\ pc[p] = "history"
    /\ meta # <<>>
    /\ posts # <<>>
    /\ state[p] < version[p]
    /\ emitted[p] = <<>>

\* C20: nothing is emitted before the change log is fetched; from the entry
\* of the handler to the end of the final checkpoint exactly the start event
\* has been emitted (so a run that throws there never emits finish); the
\* finish event is there only once the final checkpoint is stored, after the
\* start event and with the same sourceUrl, crawlDataset and crawlRange.
C20_EventOrder ==
  \A p \in Procs :
    /\ pc[p] \in {"idle", "waiting"} \/ BeforeFetch(p) => emitted[p] = <<>>
    /\ pc[p] \in {"handler", "loop", "get", "upsert", "ckDelete", "ckInsert"} =>
         emitted[p] = <<StartEvent(state[p] + 1, version[p] + 1)>>
    /\ pc[p] = "finish" =>
         /\ meta = <<Stored(tableVersion, version[p])>>
         /\ Len(emitted[p]) = 2
         /\ emitted[p][1] = StartEvent(state[p] + 1, version[p] + 1)
         /\ emitted[p][2].event = "crawl-dataset-finish"
         /\ emitted[p][2].sourceUrl = emitted[p][1].sourceUrl
         /\ emitted[p][2].crawlDataset = emitted[p][1].crawlDataset
         /\ emitted[p][2].crawlRange = emitted[p][1].crawlRange

C20_Witness ==
  \E p \in Procs :
    /\ pc[p] = "finish"
    /\ Len(emitted[p]) = 2
    /\ emitted[p][2].crawlRange.start < emitted[p][2].crawlRange.end
    /\ progress[p] >= 1

\* the names of the events of a list
NamesOf(list) == {list[i].name : i \in 1..Len(list)}

\* C16: the list getMatchingChangesInOrder returns has at most one event per
\* name, and its names are exactly the names of the input events that match
\* the pattern.
C16_OnePerMatchingName ==
  fnReturned =>
    /\ \A i, j \in 1..Len(fnList) : fnList[i].name = fnList[j].name => i = j
    /\ NamesOf(fnList) = {n \in NamesOf(fnChanges) : RegexTest(fnRegex, n)}

C16_Witness ==
  /\ fnReturned
  /\ Len(fnList) = 1
  /\ Len(fnChanges) = 3
  /\ \E i \in 1..Len(fnChanges) : ~RegexTest(fnRegex, fnChanges[i].name)
  /\ \E i, j \in 1..Len(fnChanges) :
       i # j /\ fnChanges[i].name = fnChanges[j].name
                /\ RegexTest(fnRegex, fnChanges[i].name)

\* the position in the input of the last event of `name`
LastOccurrence(cs, name) ==
  CHOOSE i \in 1..Len(cs) :
    cs[i].name = name /\ \A j \in 1..Len(cs) : cs[j].name = name => j <= i

\* C17: every returned event is the last input event of its name, and the
\* returned events are in the order of those last occurrences: the list is a
\* subsequence of the input, with strictly increasing versions.
C17_LastOccurrencesInOrder ==
  fnReturned =>
    /\ \A i \in 1..Len(fnList) :
         fnList[i] = fnChanges[LastOccurrence(fnChanges, fnList[i].name)]
    /\ \A i, j \in 1..Len(fnList) :
         i < j => /\ LastOccurrence(fnChanges, fnList[i].name)
                      < LastOccurrence(fnChanges, fnList[j].name)
                  /\ fnList[i].version < fnList[j].version

C17_Witness ==
  /\ fnReturned
  /\ Len(fnList) = 2
  /\ \E i \in 1..Len(fnChanges) :
       /\ fnChanges[i].name = fnList[2].name
       /\ i < LastOccurrence(fnChanges, fnList[1].name)

\* the row that applying the entry invocation p is at leaves in crawl_posts
AppliedRow(p) == [pathname |-> Entry(p).name, body |-> post[p].body]

\* C15: when the handler applies an add/change entry whose row is already
\* stored as a first application leaves it, the table is left as it was: one
\* row for the pathname, with the same fields.
C15_TwiceIsOnce ==
  [][\A p \in Procs :
       (/\ pc[p] = "upsert" /\ pc'[p] = "ckDelete"
        /\ RowCounts(posts) = RowCounts(<<AppliedRow(p)>>))
       => RowCounts(posts') = RowCounts(posts)]_vars

\* invocation p logs 'Failed to parse post file, skipping' for its entry
Skips(p) == skipped[p] \subseteq skipped'[p] /\ skipped'[p] # skipped[p]

\* every entry before the one invocation p is at was either skipped or
\* applied and checkpointed (progress counts the per-entry checkpoints)
EarlierEntriesDone(p) == progress[p] + Cardinality(skipped[p]) = idx[p] - 1

\* C21: a parse/validation failure skips only that entry: the step leaves
\* crawl_posts and the checkpoint as they are, the handler stays in its loop
\* at the next entry, and every other entry of changedPosts is applied and
\* checkpointed, so that a run without read failure ends with
\* progress + skipped = changedPosts.length.
C21_SkipOnlyThatEntry ==
  /\ [][\A p \in Procs :
          Skips(p) => /\ posts' = posts
                      /\ meta' = meta
                      /\ pc'[p] = "loop"
                      /\ idx'[p] = idx[p] + 1
                      /\ changedPosts'[p] = changedPosts[p]
                      /\ abortedAt'[p] = 0]_vars
  /\ [](\A p \in Procs :
          /\ pc[p] \in {"loop", "get", "upsert"} => EarlierEntriesDone(p)
          /\ (pc[p] = "finish" /\ abortedAt[p] = 0) =>
               progress[p] + Cardinality(skipped[p]) = Len(changedPosts[p]))

\* a run that skipped an entry and then applied and checkpointed a later one
C21_Witness ==
  \E p \in Procs :
    /\ pc[p] = "finish"
    /\ abortedAt[p] = 0
    /\ \E v \in skipped[p] :
         \E i \in 1..Len(changedPosts[p]) :
           /\ changedPosts[p][i].version > v
           /\ changedPosts[p][i].version \notin skipped[p]
           /\ \E k \in 1..Len(posts) : posts[k].pathname = changedPosts[p][i].name

\* the file that the change event of invocation p's entry wrote
FileAtEntryVersion(p) == archive[Entry(p).version].file

\* C22: the content the handler parsed for an add/change entry, which it is
\* about to store, is the file's content as of the entry's version.
C22_ContentAsOfEntryVersion ==
  \A p \in Procs :
    pc[p] \in {"get", "upsert"} => post[p] = FileAtEntryVersion(p)

\* the arguments of call c are ones the write API must reject
InvalidInput(c) ==
  \/ c.op \in {"create", "edit"} /\ ~validatePostContent(c.content)
  \/ c.op = "delete" /\ c.pathname.t # "string"

\* C23: create and edit called with schema-invalid content, and delete called
\* with a non-string pathname, throw without having written or unlinked any
\* archive file and without triggering a crawl.
C23_RejectBeforeWrite ==
  [][(api' # api /\ InvalidInput(api')) =>
       /\ api'.threw
       /\ archive' = archive
       /\ pc' = pc]_vars

\* an invalid call made on an archive that holds a post, with no crawl pending
C23_Witness ==
  /\ InvalidInput(api)
  /\ api.threw
  /\ api.op = "edit"
  /\ archive # <<>>
  /\ pc[WriteApi] = "idle"

\* C24: once the scope is built the effective hops is 1 or 2, 1 when hops was
\* omitted, and crawlSourceIds is defined: {user} for hops 1, the user and the
\* sources the user follows for hops 2.
C24_HopsClampedScopeDefined ==
  \A c \in Callers :
    search[c].pc = "followgraph" =>
      LET s == search[c]
      IN /\ s.hops \in {Whole(1), Whole(2)}
         /\ s.opts.hops = NoNumber => s.hops = Whole(1)
         /\ s.crawlSourceIds.defined
         /\ s.hops = Whole(1) => s.crawlSourceIds.ids = {s.userCrawlSourceId}
         /\ s.hops = Whole(2) =>
              s.crawlSourceIds.ids =
                {s.userCrawlSourceId}
                  \cup FollowedIds(tables.crawl_followgraph, s.userCrawlSourceId)

\* the crawl source that the record behind result r belongs to
RecordSource(r) == SourceId(r.authorUrl)

\* C25: every result comes from a record of a crawl source in scope: the user
\* for hops 1, the user or a source the user directly follows for hops 2.
C25_ResultsWithinScope ==
  \A c \in Callers :
    LET s == search[c]
    IN (s.pc = "returned" /\ s.crawlSourceIds.defined) =>
         \A k \in 1..Len(s.results) :
           RecordSource(s.results[k]) \in s.crawlSourceIds.ids

\* C26: every result carries a crawledAt at or after since.
C26_ResultsSince ==
  \A c \in Callers :
    LET s == search[c]
    IN s.pc = "returned" =>
         \A k \in 1..Len(s.results) : s.results[k].crawledAt >= s.since

\* C27: the returned results are at most limit entries, ordered by
\* non-increasing crawledAt whatever their resultType.
C27_SortedAndTruncated ==
  \A c \in Callers :
    LET s == search[c]
    IN s.pc = "returned" =>
         /\ Len(s.results) <= s.limit
         /\ \A i, j \in 1..Len(s.results) :
              i < j => s.results[i].crawledAt >= s.results[j].crawledAt

\* a call with limit 1 returns a site result that was concatenated after a
\* user result: the sort moved it first and the slice dropped the user result
C27_Witness ==
  \E c \in Callers :
    LET s == search[c]
    IN /\ s.pc = "returned"
       /\ s.limit = 1
       /\ s.fgRows # <<>>
       /\ Len(s.results) = 1
       /\ s.results[1].resultType = "site"

\* the urls that two rows of a dataset query share
SharedUrls(rows) ==
  {rows[i].url : i \in {k \in 1..Len(rows) :
                          \E j \in 1..Len(rows) : j # k /\ rows[j].url = rows[k].url}}

\* the first row of url in query order
FirstRow(rows, url) ==
  rows[CHOOSE i \in 1..Len(rows) :
         /\ rows[i].url = url
         /\ \A j \in 1..Len(rows) : rows[j].url = url => i <= j]

\* the positions of the entries of a result type for url
Entries(results, resultType, url) ==
  {k \in 1..Len(results) :
     results[k].resultType = resultType /\ results[k].url = url}

\* every entry of the result type for url is built from the first row of url
FromFirstRow(results, resultType, rows, url) ==
  \A k \in Entries(results, resultType, url) :
    /\ results[k].authorUrl = FirstRow(rows, url).authorUrl
    /\ resultType = "user" => results[k].crawledAt = FirstRow(rows, url).crawledAt

\* C28 (as claimed): when two published-site rows or two followgraph rows of
\* a dataset query have the same url, the returned results contain exactly
\* one entry for that url.
C28_OneEntryPerUrl ==
  \A c \in Callers :
    LET s == search[c]
    IN s.pc = "returned" =>
         \A url \in SharedUrls(s.fgRows) \cup SharedUrls(s.psRows) :
           Cardinality({k \in 1..Len(s.results) : s.results[k].url = url}) = 1

\* C28 (amended): when two rows of the followgraph query (of the
\* published-sites query) have the same url, that dataset adds exactly one
\* 'user' ('site') entry for the url to the results, built from the first of
\* those rows in query order; the returned results hold at most one entry of
\* that result type for the url, built from that row.
C28_OneEntryPerUrlAndType ==
  \A c \in Callers :
    LET s == search[c]
    IN /\ s.pc \in {"link_posts", "published_sites", "sort"} =>
            \A url \in SharedUrls(s.fgRows) :
              /\ Cardinality(Entries(s.results, "user", url)) = 1
              /\ FromFirstRow(s.results, "user", s.fgRows, url)
       /\ s.pc = "sort" =>
            \A url \in SharedUrls(s.psRows) :
              /\ Cardinality(Entries(s.results, "site", url)) = 1
              /\ FromFirstRow(s.results, "site", s.psRows, url)
       /\ s.pc = "returned" =>
            /\ \A url \in SharedUrls(s.fgRows) :
                 /\ Cardinality(Entries(s.results, "user", url)) <= 1
                 /\ FromFirstRow(s.results, "user", s.fgRows, url)
            /\ \A url \in SharedUrls(s.psRows) :
                 /\ Cardinality(Entries(s.results, "site", url)) <= 1
                 /\ FromFirstRow(s.results, "site", s.psRows, url)

\* a returned call whose followgraph query gave two rows of one url by
\* different authors and whose published-sites query gave two rows of one url
C28_Witness ==
  \E c \in Callers :
    LET s == search[c]
    IN /\ s.pc = "returned"
       /\ SharedUrls(s.psRows) # {}
       /\ \E i, j \in 1..Len(s.fgRows) :
            /\ i < j
            /\ s.fgRows[i].url = s.fgRows[j].url
            /\ s.fgRows[i].authorUrl # s.fgRows[j].authorUrl
            /\ Entries(s.results, "user", s.fgRows[i].url) # {}

\* the call of caller c has drawn its nonce and has not returned
InFlight(c) ==
  search[c].pc \in {"user", "scope", "followgraph", "link_posts",
                    "published_sites", "sort"}

\* C29: within a call every dataset query is built with the markers {nonce}
\* and {/nonce} of the returned highlightNonce, and two concurrent calls
\* never have the same nonce.
C29_SharedNonceNoCollision ==
  /\ \A c \in Callers :
       \A u \in search[c].used :
         /\ u[2] = StartHighlight(search[c].highlightNonce)
         /\ u[3] = EndHighlight(search[c].highlightNonce)
  /\ \A c, d \in Callers :
       (c # d /\ InFlight(c) /\ InFlight(d)) =>
         search[c].highlightNonce # search[d].highlightNonce

\* x was passed and is not of the type the parameter takes
WrongType(x, type) == x.t # "undefined" /\ x.t # type

\* the authors argument is not an array of strings
NotStringArray(authors) ==
  /\ authors.t # "undefined"
  /\ \/ authors.t # "array"
     \/ \E i \in 1..Len(authors.elems) : authors.elems[i].t # "string"

\* an author URL of the call cannot be parsed
UnparsableAuthor(l) ==
  \/ l.author.t = "string" /\ l.author.v # "" /\ ~Parses(l.author.v)
  \/ /\ l.authors.t = "array"
     /\ \E i \in 1..Len(l.authors.elems) :
          l.authors.elems[i].t = "string" /\ ~Parses(l.authors.elems[i].v)

\* the call's parameters are malformed
Malformed(l) ==
  \/ WrongType(l.offset, "number")
  \/ WrongType(l.limit, "number")
  \/ WrongType(l.reverse, "boolean")
  \/ WrongType(l.author, "string")
  \/ NotStringArray(l.authors)
  \/ UnparsableAuthor(l)

\* the call's parameters are malformed and not falsy
TruthyMalformed(l) ==
  \/ Truthy(l.offset) /\ WrongType(l.offset, "number")
  \/ Truthy(l.limit) /\ WrongType(l.limit, "number")
  \/ Truthy(l.reverse) /\ WrongType(l.reverse, "boolean")
  \/ Truthy(l.author) /\ WrongType(l.author, "string")
  \/ TruthyArg(l.authors) /\ NotStringArray(l.authors)
  \/ UnparsableAuthor(l)

\* C30 (as claimed): posts.list called with malformed parameters throws
\* before any store query is executed and returns no rows.
C30_MalformedThrows ==
  (lst.called /\ Malformed(lst)) =>
    (lst.threw /\ ~lst.queried /\ lst.rows = <<>>)

\* C30 (amended): posts.list throws, before any store query and without
\* rows, exactly when a parameter is malformed and truthy; a falsy value of
\* any type ('', 0, false) is taken as omitted and the query is executed.
C30_TruthyMalformedThrows ==
  lst.called =>
    /\ TruthyMalformed(lst) => (lst.threw /\ ~lst.queried /\ lst.rows = <<>>)
    /\ ~TruthyMalformed(lst) => (~lst.threw /\ lst.queried)

\* a call with a non-boolean reverse on a table that holds rows
C30_Witness ==
  /\ lst.called
  /\ posts # <<>>
  /\ Truthy(lst.reverse) /\ WrongType(lst.reverse, "boolean")
  /\ ~WrongType(lst.offset, "number")
  /\ lst.threw

\* C31: the filenames generateTimeFilename returns in one process with a
\* non-decreasing clock are pairwise distinct.
C31_FilenamesDistinct ==
  \A i, j \in 1..Len(filenames) : i # j => filenames[i] # filenames[j]

\* C32: while the posts handler runs with resetRequired = true it emits no
\* post-added, post-updated or post-removed event.
C32_NoEventsOnReplay ==
  \A p \in Procs : resetRequired[p] => postEvents[p] = <<>>

\* at most one running load per key, and a key has an entry in
\* archiveLoadPromises exactly while its load is running
OneLoadPerKey ==
  /\ \A l, m \in 1..MaxLoads :
       (l # m /\ Loading(l) /\ Loading(m)) => loads[l].key # loads[m].key
  /\ \A key \in Keys :
       IF \E l \in 1..MaxLoads : Loading(l) /\ loads[l].key = key
       THEN archiveLoadPromises[key] # 0
            /\ Loading(archiveLoadPromises[key])
            /\ loads[archiveLoadPromises[key]].key = key
       ELSE archiveLoadPromises[key] = 0

\* a call made while the key's load is running returns that load and starts
\* no loadArchiveInner
JoinsRunningLoad ==
  \A key \in Keys :
    (archiveLoadPromises[key] # 0 /\ lastCall' # lastCall /\ lastCall'.key = key) =>
      (lastCall'.load = archiveLoadPromises[key] /\ loads' = loads)

\* C33: while a load of a key is in flight every loadArchive call for the key
\* gets that load and loadArchiveInner is not started again; the in-flight
\* entry is removed when the load settles, on success and on failure alike.
C33_SharedLoad == []OneLoadPerKey /\ [][JoinsRunningLoad]_vars

\* a load of a key failed and a later call started a new load of the key
C33_Witness ==
  \E l, m \in 1..MaxLoads :
    /\ loads[l].pc = "failed"
    /\ Loading(m)
    /\ loads[m].key = loads[l].key
    /\ lastCall.load = m
    /\ archiveLoadPromises[loads[m].key] = m

\* the loads loadSavedArchives started
SavedLoads == {l \in 1..MaxLoads : loads[l].by = "saved"}

\* no two loads started by loadSavedArchives are running at once
OneSavedLoadAtATime ==
  \A l, m \in SavedLoads : (l # m /\ Loading(l)) => ~Loading(m)

\* the loads of loadSavedArchives are started a wait period apart
StartedAPeriodApart ==
  \A l, m \in SavedLoads :
    l < m => loads[m].startedAt - loads[l].startedAt >= WaitPeriod

C36_UnloadedStaysUnloaded ==
  \A key \in Keys : unloaded[key] => key \notin archives

\* caller m holds the lock and is between its acquire and its release
InCritical(m) == bm[m].pc \in {"get", "run"}

\* the lock is held exactly by the caller inside its guarded block, so at
\* most one mutation is inside and no finished call keeps the lock
LockedWhileInside ==
  /\ \A m \in Mutators : InCritical(m) <=> bookmarksLock = m
  /\ \A m, n \in Mutators : (InCritical(m) /\ InCritical(n)) => m = n

\* between editBookmark's read and its write no other call changes the table
NoWriteUnderEdit ==
  \A m \in Mutators :
    (bm[m].op = "edit" /\ bm[m].pc = "run" /\ bookmarks' # bookmarks) =>
      bm'[m].pc = "idle"

C38_RowsHaveUrlAndTitle ==
  \A r \in bookmarks : ValidString(r.url) /\ ValidString(r.title)

\* C37: crawl_posts holds at most one row per (crawlSourceId, pathname), and
\* the existence check before an upsert finds the row the write is about.
C37_OneRowPerPathname ==
  /\ \A i, j \in 1..Len(posts) : posts[i].pathname = posts[j].pathname => i = j
  /\ \A p \in Procs :
       pc[p] = "upsert" =>
         (existingPost[p] # NoPost <=>
            \E i \in 1..Len(posts) : posts[i].pathname = Entry(p).name)

\* the resolved flag stored for url
StoredResolved(url) ==
  IF \E r \in watchlist : r.url = url
  THEN (CHOOSE r \in watchlist : r.url = url).resolved
  ELSE 0

\* C39: for each watched site 'resolved' is emitted at most once, only after
\* the site's archive was loaded, and once it was emitted the stored resolved
\* flag of the site is 1.
C39_ResolvedOnce ==
  \A url \in Sites :
    /\ resolvedEvents[url] <= 1
    /\ resolvedEvents[url] > 0 =>
         (url \in loadedSites /\ StoredResolved(url) = 1)

====
